---- MODULE Spec2Model ----
(***************************************************************************)
(* Orchestration core of the sandwich agent: the pipeline state machine    *)
(* with its checkpoint log (agent/state_machine.py) and the adaptive       *)
(* forager's tier/streak control state (agent/forager.py).                 *)
(***************************************************************************)
EXTENDS Integers, Sequences, FiniteSets, TLC

(***************************************************************************)
(* Bounds of the model.                                                    *)
(***************************************************************************)
\* checkpoints appended over both machines in Spec (two machines, all operations)
MaxLog == 3
\* longest checkpoint log of the machine in SpecRun (transition calls only)
MaxRun == 8
\* SpecRecover: transitions of the original machine before the restart
MaxOriginal == 3
\* SpecRecover: events replayed on both machines after the recovery
MaxReplay == 2
\* SpecForager: highest tier key a configuration may hold
MaxTier == 3
\* SpecForager: largest promotion / demotion threshold of a configuration
MaxThreshold == 3
\* SpecForager: cap on a streak counter that the code lets grow without limit
MaxStreak == 4
\* SpecConc: transition calls each concurrent caller makes
MaxCalls == 2
\* SpecSelect: candidates passed to select_candidate
MaxCandidates == 3
\* SpecLimiter: the last reading of the monotonic clock, in seconds
MaxClock == 8
\* SpecPass: longest run of successful transitions of the machine
MaxPass == 15

VARIABLES
    session_id,      \* StateMachine.session_id, per machine
    current_state,   \* StateMachine.current_state, per machine
    checkpoints,     \* StateMachine.checkpoints, per machine: a sequence
    ret,             \* the last call made on a machine and what it returned or raised
    nTransitions,    \* per machine: transition calls that returned normally
    nRecovers,       \* per machine: recover_from_checkpoint calls
    stage,           \* SpecRecover: "original" before the restart, "replay" after it
    m1_ret,          \* SpecRecover: what machine 1 returned for the event being replayed
    sources,         \* Forager.sources: tier -> list of sources
    config,          \* Forager.config: successes_to_promote, failures_to_demote
    current_tier,    \* Forager.current_tier
    consecutive_failures,   \* Forager.consecutive_failures
    consecutive_successes,  \* Forager.consecutive_successes
    run,             \* the run of record calls of one kind since that kind's streak was 0
    fret,            \* the last forage call: its arguments, the source's answer, its outcome
    failure,         \* SpecRoute: the failure being handled and how far its handling got
    routed,          \* the last determine_recovery_event call: its argument, result, log line
    sel_args,        \* SpecSelect: the arguments of select_candidate
    sel_ret,         \* SpecSelect: what select_candidate returned for sel_args
    now,             \* SpecLimiter: time.monotonic(), in seconds
    limiter,         \* SpecLimiter: a RateLimiter
    wret,            \* SpecLimiter: the last wait_if_needed call and the one before it
    th,              \* SpecConc: per caller, its place in transition() and its locals
    fth,             \* SpecForagerConc: the callers of one forager, and its state before them
    loop             \* SpecLoop: the limiters and fetches of two sessions on one event loop

smVars == <<session_id, current_state, checkpoints, ret, nTransitions, nRecovers>>
recVars == <<stage, m1_ret>>
fVars == <<sources, config, current_tier, consecutive_failures, consecutive_successes, run>>
cVars == <<th>>
forageVars == <<fret>>

\* the components outside the state machine and the forager's counters
routeVars == <<failure, routed>>
selVars == <<sel_args, sel_ret>>
rlVars == <<now, limiter, wret>>
fcVars == <<fth, loop>>
xVars == <<forageVars, routeVars, selVars, rlVars, fcVars>>

vars == <<smVars, recVars, fVars, cVars, xVars>>

----------------------------------------------------------------------------
(***************************************************************************)
(* agent/state_machine.py                                                  *)
(***************************************************************************)

\* class AgentState(Enum): the enum's values
AgentState ==
    {"idle", "foraging", "preprocessing", "identifying", "selecting",
     "assembling", "validating", "storing", "error_recovery", "session_end"}

\* the event names that occur in the table
Events ==
    {"start_foraging", "end_session", "content_found", "forage_failed", "error",
     "content_accepted", "content_rejected", "candidates_found", "no_candidates",
     "candidate_selected", "none_viable", "assembly_complete", "accepted",
     "review", "rejected", "stored", "recovered", "fatal"}

\* event arguments of the calls: every table event and one string that is no event
EventInputs == Events \cup {"bogus"}

\* the table, but SESSION_END may start a new pass, and VALIDATING sends a review
\* back to IDLE
TRANSITIONS_restartable ==
    [s \in AgentState |->
        CASE s = "idle" ->
                ("start_foraging" :> "foraging" @@ "end_session" :> "session_end")
          [] s = "foraging" ->
                ("content_found" :> "preprocessing" @@ "forage_failed" :> "idle"
                 @@ "error" :> "error_recovery")
          [] s = "preprocessing" ->
                ("content_accepted" :> "identifying" @@ "content_rejected" :> "idle"
                 @@ "error" :> "error_recovery")
          [] s = "identifying" ->
                ("candidates_found" :> "selecting" @@ "no_candidates" :> "idle"
                 @@ "error" :> "error_recovery")
          [] s = "selecting" ->
                ("candidate_selected" :> "assembling" @@ "none_viable" :> "idle"
                 @@ "error" :> "error_recovery")
          [] s = "assembling" ->
                ("assembly_complete" :> "validating" @@ "error" :> "error_recovery")
          [] s = "validating" ->
                ("accepted" :> "storing" @@ "review" :> "idle"
                 @@ "rejected" :> "idle" @@ "error" :> "error_recovery")
          [] s = "storing" ->
                ("stored" :> "idle" @@ "error" :> "error_recovery")
          [] s = "error_recovery" ->
                ("recovered" :> "idle" @@ "fatal" :> "session_end")
          [] s = "session_end" -> ("start_foraging" :> "foraging") ]

\* TRANSITIONS, but a review sends VALIDATING back to ASSEMBLING
TRANSITIONS_review_reassembles ==
    [TRANSITIONS_restartable EXCEPT
        !["validating"] = ("accepted" :> "storing" @@ "review" :> "assembling"
                           @@ "rejected" :> "idle" @@ "error" :> "error_recovery"),
        !["session_end"] = [e \in {} |-> "idle"]]

\* TRANSITIONS, but an error while storing ends the session
TRANSITIONS_storing_error_ends ==
    [TRANSITIONS_restartable EXCEPT
        !["storing"] = ("stored" :> "idle" @@ "error" :> "session_end"),
        !["session_end"] = [e \in {} |-> "idle"]]

\* TRANSITIONS: current_state -> { event -> next_state }
TRANSITIONS ==
    [s \in AgentState |->
        CASE s = "idle" ->
                ("start_foraging" :> "foraging" @@ "end_session" :> "session_end")
          [] s = "foraging" ->
                ("content_found" :> "preprocessing" @@ "forage_failed" :> "idle"
                 @@ "error" :> "error_recovery")
          [] s = "preprocessing" ->
                ("content_accepted" :> "identifying" @@ "content_rejected" :> "idle"
                 @@ "error" :> "error_recovery")
          [] s = "identifying" ->
                ("candidates_found" :> "selecting" @@ "no_candidates" :> "idle"
                 @@ "error" :> "error_recovery")
          [] s = "selecting" ->
                ("candidate_selected" :> "assembling" @@ "none_viable" :> "idle"
                 @@ "error" :> "error_recovery")
          [] s = "assembling" ->
                ("assembly_complete" :> "validating" @@ "error" :> "error_recovery")
          [] s = "validating" ->
                ("accepted" :> "storing" @@ "review" :> "storing"
                 @@ "rejected" :> "idle" @@ "error" :> "error_recovery")
          [] s = "storing" ->
                ("stored" :> "idle" @@ "error" :> "error_recovery")
          [] s = "error_recovery" ->
                ("recovered" :> "idle" @@ "fatal" :> "session_end")
          [] s = "session_end" -> [e \in {} |-> "idle"] ]

\* the two machines of the model: an original and one that may recover from it
Machines == {1, 2}

\* the data argument of transition: None, an empty dict, a non-empty dict
Payloads == {"None", "empty", "p1"}

\* `data or {}`: None and the empty dict both become the empty dict
DataOrEmpty(data) == IF data \in {"None", "empty"} THEN "empty" ELSE data

\* StateCheckpoint: checkpoint_id and timestamp (fresh per object) are left out
StateCheckpoint(sid, state, data, reason) ==
    [session_id |-> sid, state |-> state, data |-> data, transition_reason |-> reason]

\* f"{old_state.value} --[{event}]--> {new_state.value}"
TransitionReason(old_state, event, new_state) ==
    <<old_state, " --[", event, "]--> ", new_state>>

\* what a call returned (and, for a transition that succeeded, the data argument
\* it was given; for recover_from_checkpoint, the checkpoint it was given): the
\* fields a kind of call does not use keep their defaults
Ret(op, m, event) ==
    [op |-> op, m |-> m, event |-> event, raised |-> "", exc_state |-> "",
     state |-> "", flag |-> FALSE, cp |-> <<>>, data |-> ""]

\* StateMachine.can_transition: event in TRANSITIONS.get(self.current_state, {})
can_transition(m, event) ==
    IF current_state[m] \in DOMAIN TRANSITIONS
    THEN event \in DOMAIN TRANSITIONS[current_state[m]]
    ELSE FALSE

\* a call of can_transition that also puts the machine back to IDLE
CanTransitionCall_resets(m, event) ==
    /\ ret' = [Ret("can_transition", m, event) EXCEPT !.flag = can_transition(m, event)]
    /\ current_state' = [current_state EXCEPT ![m] = "idle"]
    /\ UNCHANGED <<session_id, checkpoints, nTransitions, nRecovers>>

\* a call of can_transition: returns the membership test, changes nothing else
CanTransitionCall(m, event) ==
    /\ ret' = [Ret("can_transition", m, event) EXCEPT !.flag = can_transition(m, event)]
    /\ UNCHANGED <<session_id, current_state, checkpoints, nTransitions, nRecovers>>

\* transition, but an illegal event is ignored: no error, the current state returned
transition_ignores_illegal(m, event, data) ==
    IF ~can_transition(m, event)
    THEN /\ ret' = [Ret("transition", m, event) EXCEPT !.state = current_state[m]]
         /\ UNCHANGED <<session_id, current_state, checkpoints, nTransitions, nRecovers>>
    ELSE LET new_state == TRANSITIONS[current_state[m]][event]
             old_state == current_state[m]
             checkpoint == StateCheckpoint(session_id[m], new_state, DataOrEmpty(data),
                                           TransitionReason(old_state, event, new_state))
         IN /\ checkpoints' = [checkpoints EXCEPT ![m] = Append(@, checkpoint)]
            /\ current_state' = [current_state EXCEPT ![m] = new_state]
            /\ ret' = [Ret("transition", m, event) EXCEPT !.state = new_state,
                                                         !.data = data]
            /\ nTransitions' = [nTransitions EXCEPT ![m] = @ + 1]
            /\ UNCHANGED <<session_id, nRecovers>>

\* transition, but the checkpoint is appended only when a payload is given
transition_skips_checkpoint(m, event, data) ==
    IF ~can_transition(m, event)
    THEN /\ ret' = [Ret("transition", m, event) EXCEPT
                        !.raised = "InvalidTransitionError",
                        !.exc_state = current_state[m]]
         /\ UNCHANGED <<session_id, current_state, checkpoints, nTransitions, nRecovers>>
    ELSE LET new_state == TRANSITIONS[current_state[m]][event]
             old_state == current_state[m]
             checkpoint == StateCheckpoint(session_id[m], new_state, DataOrEmpty(data),
                                           TransitionReason(old_state, event, new_state))
         IN /\ checkpoints' = [checkpoints EXCEPT ![m] =
                                  IF data = "None" THEN @ ELSE Append(@, checkpoint)]
            /\ current_state' = [current_state EXCEPT ![m] = new_state]
            /\ ret' = [Ret("transition", m, event) EXCEPT !.state = new_state,
                                                         !.data = data]
            /\ nTransitions' = [nTransitions EXCEPT ![m] = @ + 1]
            /\ UNCHANGED <<session_id, nRecovers>>

\* transition, but the checkpoint records the state left, not the state entered
transition_logs_old_state(m, event, data) ==
    IF ~can_transition(m, event)
    THEN /\ ret' = [Ret("transition", m, event) EXCEPT
                        !.raised = "InvalidTransitionError",
                        !.exc_state = current_state[m]]
         /\ UNCHANGED <<session_id, current_state, checkpoints, nTransitions, nRecovers>>
    ELSE LET new_state == TRANSITIONS[current_state[m]][event]
             old_state == current_state[m]
             checkpoint == StateCheckpoint(session_id[m], old_state, DataOrEmpty(data),
                                           TransitionReason(old_state, event, new_state))
         IN /\ checkpoints' = [checkpoints EXCEPT ![m] = Append(@, checkpoint)]
            /\ current_state' = [current_state EXCEPT ![m] = new_state]
            /\ ret' = [Ret("transition", m, event) EXCEPT !.state = new_state,
                                                         !.data = data]
            /\ nTransitions' = [nTransitions EXCEPT ![m] = @ + 1]
            /\ UNCHANGED <<session_id, nRecovers>>

\* transition, but a rejected event also resets the machine to IDLE
transition_resets_on_error(m, event, data) ==
    IF ~can_transition(m, event)
    THEN /\ ret' = [Ret("transition", m, event) EXCEPT
                        !.raised = "InvalidTransitionError",
                        !.exc_state = current_state[m]]
         /\ current_state' = [current_state EXCEPT ![m] = "idle"]
         /\ UNCHANGED <<session_id, checkpoints, nTransitions, nRecovers>>
    ELSE LET new_state == TRANSITIONS[current_state[m]][event]
             old_state == current_state[m]
             checkpoint == StateCheckpoint(session_id[m], new_state, DataOrEmpty(data),
                                           TransitionReason(old_state, event, new_state))
         IN /\ checkpoints' = [checkpoints EXCEPT ![m] = Append(@, checkpoint)]
            /\ current_state' = [current_state EXCEPT ![m] = new_state]
            /\ ret' = [Ret("transition", m, event) EXCEPT !.state = new_state,
                                                         !.data = data]
            /\ nTransitions' = [nTransitions EXCEPT ![m] = @ + 1]
            /\ UNCHANGED <<session_id, nRecovers>>

\* transition, but the checkpoint always stores the empty dict
transition_drops_payload(m, event, data) ==
    IF ~can_transition(m, event)
    THEN /\ ret' = [Ret("transition", m, event) EXCEPT
                        !.raised = "InvalidTransitionError",
                        !.exc_state = current_state[m]]
         /\ UNCHANGED <<session_id, current_state, checkpoints, nTransitions, nRecovers>>
    ELSE LET new_state == TRANSITIONS[current_state[m]][event]
             old_state == current_state[m]
             checkpoint == StateCheckpoint(session_id[m], new_state, "empty",
                                           TransitionReason(old_state, event, new_state))
         IN /\ checkpoints' = [checkpoints EXCEPT ![m] = Append(@, checkpoint)]
            /\ current_state' = [current_state EXCEPT ![m] = new_state]
            /\ ret' = [Ret("transition", m, event) EXCEPT !.state = new_state,
                                                         !.data = data]
            /\ nTransitions' = [nTransitions EXCEPT ![m] = @ + 1]
            /\ UNCHANGED <<session_id, nRecovers>>

\* StateMachine.transition(event, data)
transition(m, event, data) ==
    IF ~can_transition(m, event)
    THEN \* raise InvalidTransitionError(self.current_state, event)
         /\ ret' = [Ret("transition", m, event) EXCEPT
                        !.raised = "InvalidTransitionError",
                        !.exc_state = current_state[m]]
         /\ UNCHANGED <<session_id, current_state, checkpoints, nTransitions, nRecovers>>
    ELSE LET new_state == TRANSITIONS[current_state[m]][event]
             old_state == current_state[m]
             checkpoint == StateCheckpoint(session_id[m], new_state, DataOrEmpty(data),
                                           TransitionReason(old_state, event, new_state))
         IN /\ checkpoints' = [checkpoints EXCEPT ![m] = Append(@, checkpoint)]
            /\ current_state' = [current_state EXCEPT ![m] = new_state]
            /\ ret' = [Ret("transition", m, event) EXCEPT !.state = new_state,
                                                         !.data = data]
            /\ nTransitions' = [nTransitions EXCEPT ![m] = @ + 1]
            /\ UNCHANGED <<session_id, nRecovers>>

\* recover_from_checkpoint, but the machine keeps its own session id
recover_keeps_session(m, checkpoint) ==
    /\ current_state' = [current_state EXCEPT ![m] = checkpoint.state]
    /\ checkpoints' = [checkpoints EXCEPT ![m] = Append(@, checkpoint)]
    /\ ret' = [Ret("recover_from_checkpoint", m, "") EXCEPT !.cp = <<checkpoint>>]
    /\ nRecovers' = [nRecovers EXCEPT ![m] = @ + 1]
    /\ UNCHANGED <<session_id, nTransitions>>

\* recover_from_checkpoint, but the log is restarted from the restored checkpoint
recover_replaces_log(m, checkpoint) ==
    /\ current_state' = [current_state EXCEPT ![m] = checkpoint.state]
    /\ session_id' = [session_id EXCEPT ![m] = checkpoint.session_id]
    /\ checkpoints' = [checkpoints EXCEPT ![m] = <<checkpoint>>]
    /\ ret' = [Ret("recover_from_checkpoint", m, "") EXCEPT !.cp = <<checkpoint>>]
    /\ nRecovers' = [nRecovers EXCEPT ![m] = @ + 1]
    /\ UNCHANGED nTransitions

\* StateMachine.recover_from_checkpoint(checkpoint)
recover_from_checkpoint(m, checkpoint) ==
    /\ current_state' = [current_state EXCEPT ![m] = checkpoint.state]
    /\ session_id' = [session_id EXCEPT ![m] = checkpoint.session_id]
    /\ checkpoints' = [checkpoints EXCEPT ![m] = Append(@, checkpoint)]
    /\ ret' = [Ret("recover_from_checkpoint", m, "") EXCEPT !.cp = <<checkpoint>>]
    /\ nRecovers' = [nRecovers EXCEPT ![m] = @ + 1]
    /\ UNCHANGED nTransitions

\* get_latest_checkpoint, but returning the oldest entry of the log
get_latest_checkpoint_oldest(m) ==
    IF checkpoints[m] # <<>> THEN <<checkpoints[m][1]>> ELSE <<>>

\* StateMachine.get_latest_checkpoint: the last entry, or None (the empty sequence)
get_latest_checkpoint(m) ==
    IF checkpoints[m] # <<>> THEN <<checkpoints[m][Len(checkpoints[m])]>> ELSE <<>>

\* a call of get_latest_checkpoint
GetLatestCall(m) ==
    /\ ret' = [Ret("get_latest_checkpoint", m, "") EXCEPT !.cp = get_latest_checkpoint(m)]
    /\ UNCHANGED <<session_id, current_state, checkpoints, nTransitions, nRecovers>>

\* the checkpoints a caller can hold: any entry of any machine's log
HeldCheckpoints ==
    UNION {{checkpoints[m][i] : i \in 1..Len(checkpoints[m])} : m \in Machines}

\* StateMachine.__init__ of both machines: a uuid4 each, IDLE, an empty log
InitSM ==
    /\ session_id = [m \in Machines |-> IF m = 1 THEN "u1" ELSE "u2"]
    /\ current_state = [m \in Machines |-> "idle"]
    /\ checkpoints = [m \in Machines |-> <<>>]
    /\ ret = Ret("init", 0, "")
    /\ nTransitions = [m \in Machines |-> 0]
    /\ nRecovers = [m \in Machines |-> 0]

----------------------------------------------------------------------------
(***************************************************************************)
(* agent/forager.py: the tier and streak state                             *)
(***************************************************************************)

\* a ContentSource configured under a tier key: its name tells the sources apart
Source(name, tier) == [name |-> name \o ToString(tier), tier |-> tier]

\* the source lists a tier key may map to: none configured, or one source
SourceLists(tier) == {<<>>, <<Source("source", tier)>>}

\* the source lists a tier key may map to, a list of two sources included
SourceChoices(tier) ==
    SourceLists(tier) \cup {<<Source("source", tier), Source("mirror", tier)>>}

\* the sources mappings with up to two sources per tier key
ChoiceConfigs ==
    UNION {{f \in [K -> UNION {SourceChoices(k) : k \in K}] :
                \A k \in K : f[k] \in SourceChoices(k)} : K \in SUBSET (1..MaxTier)}

\* the sources mappings: any set of tier keys, each with a source list
SourceConfigs ==
    UNION {{f \in [K -> UNION {SourceLists(k) : k \in K}] :
                \A k \in K : f[k] \in SourceLists(k)} : K \in SUBSET (1..MaxTier)}

\* ForagerConfig: the two thresholds
ForagerConfig ==
    [successes_to_promote : 1..MaxThreshold, failures_to_demote : 1..MaxThreshold]

\* max(keys)
MaxKey(keys) == CHOOSE k \in keys : \A j \in keys : j <= k

\* max(self.sources.keys()) if self.sources else 1
max_tier == IF DOMAIN sources # {} THEN MaxKey(DOMAIN sources) ELSE 1

\* the run of record calls of `kind`, after one more call made when that kind's
\* streak counter was `streak`; `broke` is the streak of the other kind that
\* this call found (nonzero when the call interrupts a run of the other kind)
NextRun(kind, streak) ==
    LET other == IF kind = "success" THEN consecutive_failures
                                     ELSE consecutive_successes
    IN IF streak = 0 \/ run.kind # kind
       THEN [kind |-> kind, start_tier |-> current_tier, calls |-> 1, broke |-> other]
       ELSE [run EXCEPT !.calls = @ + 1, !.broke = other]

\* record_success, but promoting only once the streak exceeds the threshold
record_success_late ==
    LET successes == consecutive_successes + 1
        promote == successes > config.successes_to_promote /\ current_tier < max_tier
    IN /\ consecutive_failures' = 0
       /\ current_tier' = IF promote THEN current_tier + 1 ELSE current_tier
       /\ consecutive_successes' = IF promote THEN 0 ELSE successes
       /\ run' = NextRun("success", consecutive_successes)
       /\ UNCHANGED <<sources, config>>

\* record_success, but leaving the failure streak as it was
record_success_keeps_failures ==
    LET successes == consecutive_successes + 1
        promote == successes >= config.successes_to_promote /\ current_tier < max_tier
    IN /\ current_tier' = IF promote THEN current_tier + 1 ELSE current_tier
       /\ consecutive_successes' = IF promote THEN 0 ELSE successes
       /\ run' = NextRun("success", consecutive_successes)
       /\ UNCHANGED <<sources, config, consecutive_failures>>

\* record_success, but without the check that a higher tier is configured
record_success_unbounded ==
    LET successes == consecutive_successes + 1
        promote == successes >= config.successes_to_promote
    IN /\ consecutive_failures' = 0
       /\ current_tier' = IF promote THEN current_tier + 1 ELSE current_tier
       /\ consecutive_successes' = IF promote THEN 0 ELSE successes
       /\ run' = NextRun("success", consecutive_successes)
       /\ UNCHANGED <<sources, config>>

\* Forager.record_success
record_success ==
    LET successes == consecutive_successes + 1
        promote == successes >= config.successes_to_promote /\ current_tier < max_tier
    IN /\ consecutive_failures' = 0
       /\ current_tier' = IF promote THEN current_tier + 1 ELSE current_tier
       /\ consecutive_successes' = IF promote THEN 0 ELSE successes
       /\ run' = NextRun("success", consecutive_successes)
       /\ UNCHANGED <<sources, config>>

\* record_failure, but demoting only once the streak exceeds the threshold
record_failure_late ==
    LET failures == consecutive_failures + 1
        demote == failures > config.failures_to_demote /\ current_tier > 1
    IN /\ consecutive_successes' = 0
       /\ current_tier' = IF demote THEN current_tier - 1 ELSE current_tier
       /\ consecutive_failures' = IF demote THEN 0 ELSE failures
       /\ run' = NextRun("failure", consecutive_failures)
       /\ UNCHANGED <<sources, config>>

\* record_failure, but leaving the success streak as it was
record_failure_keeps_successes ==
    LET failures == consecutive_failures + 1
        demote == failures >= config.failures_to_demote /\ current_tier > 1
    IN /\ current_tier' = IF demote THEN current_tier - 1 ELSE current_tier
       /\ consecutive_failures' = IF demote THEN 0 ELSE failures
       /\ run' = NextRun("failure", consecutive_failures)
       /\ UNCHANGED <<sources, config, consecutive_successes>>

\* Forager.record_failure
record_failure ==
    LET failures == consecutive_failures + 1
        demote == failures >= config.failures_to_demote /\ current_tier > 1
    IN /\ consecutive_successes' = 0
       /\ current_tier' = IF demote THEN current_tier - 1 ELSE current_tier
       /\ consecutive_failures' = IF demote THEN 0 ELSE failures
       /\ run' = NextRun("failure", consecutive_failures)
       /\ UNCHANGED <<sources, config>>

\* Forager.__init__ with the given sources mapping and thresholds
InitForager(srcs, cfg) ==
    /\ sources = srcs
    /\ config = cfg
    /\ current_tier = 1
    /\ consecutive_failures = 0
    /\ consecutive_successes = 0
    /\ run = [kind |-> "none", start_tier |-> 1, calls |-> 0, broke |-> 0]

----------------------------------------------------------------------------
(***************************************************************************)
(* agent/forager.py: forage                                                *)
(***************************************************************************)

\* the curiosity argument: None, the empty string, a prompt
Curiosities == {"None", "", "squeeze theorem"}

\* what the awaited fetch or fetch_random of a source does: returns a
\* SourceResult with content, returns one with empty content, raises an
\* exception derived from Exception, or raises one derived from BaseException
\* only (KeyboardInterrupt, SystemExit, asyncio.CancelledError)
FetchOutcomes == {"content", "empty", "Exception", "BaseException"}

\* the test `curiosity is not None` in place of the truth value
IsNotNone(curiosity) == curiosity # "None"

\* the truth value Python gives a curiosity argument
Truthy(curiosity) == curiosity \notin {"None", ""}

\* _get_tier_sources, but starting the walk at the highest configured tier
get_tier_sources_from_top ==
    LET usable == {t \in DOMAIN sources : sources[t] # <<>>}
    IN IF usable = {} THEN <<>> ELSE sources[MaxKey(usable)]

\* Forager._get_tier_sources: the list of the first tier, walking down from
\* current_tier to 1, that is a key of sources with a non-empty list
get_tier_sources ==
    LET usable == {t \in 1..current_tier : t \in DOMAIN sources /\ sources[t] # <<>>}
    IN IF usable = {} THEN <<>> ELSE sources[MaxKey(usable)]

\* SourceResult(content=...)
SourceResult(outcome) == [content |-> IF outcome = "content" THEN "text" ELSE ""]

\* ForagingResult(source_result, source_name, curiosity_prompt)
ForagingResult(source_result, source_name, curiosity) ==
    [source_result |-> source_result, source_name |-> source_name,
     curiosity_prompt |-> curiosity]

\* what a forage call did: the tier it was made at, the source chosen and the
\* method called on it (both "" when no source was called), the query passed,
\* whether the call is suspended in its await of that method, what the source
\* did, the exception that left forage ("" if none) and the value returned
\* (<<>> for None, else a one-element sequence)
ForageRet(curiosity, source_name, method, query, outcome, raised, result) ==
    [op |-> "forage", curiosity |-> curiosity, tier |-> current_tier,
     source_name |-> source_name, method |-> method, query |-> query,
     awaiting |-> FALSE, outcome |-> outcome, raised |-> raised, result |-> result]

\* lines 100, 102: a forage call suspended in `await source.fetch(curiosity)` or
\* `await source.fetch_random()`: the event loop may run other tasks
ForageAwaiting(curiosity, source_name, method, query) ==
    [ForageRet(curiosity, source_name, method, query, "", "", <<>>)
        EXCEPT !.awaiting = TRUE]

\* no forage call made yet
NoForage ==
    [op |-> "init", curiosity |-> "None", tier |-> 1, source_name |-> "",
     method |-> "", query |-> "", awaiting |-> FALSE, outcome |-> "",
     raised |-> "", result |-> <<>>]

\* an except clause that catches nothing
ExceptNothing(outcome) == FALSE

\* line 103, except Exception: the raised exceptions the clause catches
ExceptException(outcome) == outcome = "Exception"

\* the rest of forage, but counting a call that returns None as a failure
forage_resumes_counting_absence(outcome) ==
    LET raises == outcome \in {"Exception", "BaseException"}
        propagates == raises /\ ~ExceptException(outcome)
        found == ~raises /\ SourceResult(outcome).content # ""
    IN /\ fret.awaiting
       /\ fret' = [fret EXCEPT
                      !.awaiting = FALSE,
                      !.outcome = outcome,
                      !.raised = IF propagates THEN outcome ELSE "",
                      !.result = IF found
                                 THEN <<ForagingResult(SourceResult(outcome),
                                                       fret.source_name, fret.curiosity)>>
                                 ELSE <<>>]
       /\ consecutive_failures' =
             IF found THEN consecutive_failures ELSE consecutive_failures + 1
       /\ UNCHANGED <<sources, config, current_tier, consecutive_successes, run>>

\* Forager.forage(curiosity), lines 89-102: up to the return of None for lack of
\* sources, or to the await of the chosen source's fetch or fetch_random; the
\* model follows one forage call at a time
forage(curiosity) ==
    LET tier_sources == get_tier_sources
    IN /\ ~fret.awaiting
       /\ IF tier_sources = <<>>
          THEN fret' = ForageRet(curiosity, "", "", "", "", "", <<>>)
          ELSE \E i \in 1..Len(tier_sources) :
                  LET source == tier_sources[i]
                      method == IF Truthy(curiosity) THEN "fetch" ELSE "fetch_random"
                      query == IF Truthy(curiosity) THEN curiosity ELSE ""
                  IN fret' = ForageAwaiting(curiosity, source.name, method, query)
       /\ UNCHANGED fVars

\* Forager.forage, lines 100-121: the awaited source answers with `outcome` and the
\* call goes on to its end: the exception propagates, or None or a
\* ForagingResult is returned
forage_resumes(outcome) ==
    LET raises == outcome \in {"Exception", "BaseException"}
        propagates == raises /\ ~ExceptException(outcome)
        found == ~raises /\ SourceResult(outcome).content # ""
    IN /\ fret.awaiting
       /\ fret' = [fret EXCEPT
                      !.awaiting = FALSE,
                      !.outcome = outcome,
                      !.raised = IF propagates THEN outcome ELSE "",
                      !.result = IF found
                                 THEN <<ForagingResult(SourceResult(outcome),
                                                       fret.source_name, fret.curiosity)>>
                                 ELSE <<>>]
       /\ UNCHANGED fVars

----------------------------------------------------------------------------
(***************************************************************************)
(* agent/error_handler.py                                                  *)
(***************************************************************************)

\* the classes determine_recovery_event tests its argument against
ErrorClasses == {"FatalError", "ContentError", "ParseError", "RetryableError"}

\* an error, as the set of those classes it is an instance of (none of them:
\* some other SandwichError subclass)
Errors == SUBSET ErrorClasses

\* what a determine_recovery_event call did: the event returned and the log
\* line emitted (its level, and whether it names error.reason)
Routed(error, event, level, with_reason) ==
    [op |-> "determine_recovery_event", error |-> error, event |-> event,
     level |-> level, with_reason |-> with_reason]

\* no determine_recovery_event call made yet
NoRouted == [op |-> "init", error |-> {}, event |-> "", level |-> "", with_reason |-> FALSE]

\* determine_recovery_event, but testing ContentError before FatalError
determine_recovery_event_content_first(error) ==
    IF "ContentError" \in error THEN Routed(error, "recovered", "warning", TRUE)
    ELSE IF "FatalError" \in error THEN Routed(error, "fatal", "error", TRUE)
    ELSE IF "ParseError" \in error THEN Routed(error, "recovered", "warning", FALSE)
    ELSE IF "RetryableError" \in error THEN Routed(error, "recovered", "warning", TRUE)
    ELSE Routed(error, "recovered", "warning", FALSE)

\* determine_recovery_event, but asking for a retry of a RetryableError
determine_recovery_event_retries(error) ==
    IF "FatalError" \in error THEN Routed(error, "fatal", "error", TRUE)
    ELSE IF "ContentError" \in error THEN Routed(error, "recovered", "warning", TRUE)
    ELSE IF "ParseError" \in error THEN Routed(error, "recovered", "warning", FALSE)
    ELSE IF "RetryableError" \in error THEN Routed(error, "retry", "warning", TRUE)
    ELSE Routed(error, "recovered", "warning", FALSE)

\* determine_recovery_event(error)
determine_recovery_event(error) ==
    IF "FatalError" \in error THEN Routed(error, "fatal", "error", TRUE)
    ELSE IF "ContentError" \in error THEN Routed(error, "recovered", "warning", TRUE)
    ELSE IF "ParseError" \in error THEN Routed(error, "recovered", "warning", FALSE)
    ELSE IF "RetryableError" \in error THEN Routed(error, "recovered", "warning", TRUE)
    ELSE Routed(error, "recovered", "warning", FALSE)

\* the states in which a step of the pipeline runs
PipelineStates ==
    {"foraging", "preprocessing", "identifying", "selecting", "assembling",
     "validating", "storing"}

\* how far the handling of a failure got: "raised" once transition("error") was
\* called, "classified" once determine_recovery_event returned, "handled" once
\* transition was called with the event it returned
Failure(reached, error, from) == [stage |-> reached, error |-> error, from |-> from]

\* no failure being handled
NoFailure == Failure("none", {}, "")

----------------------------------------------------------------------------
(***************************************************************************)
(* agent/selector.py.  Confidences, weights, bonuses, frequencies and      *)
(* cosines are counted in eighths, final scores in sixty-fourths: all of   *)
(* them binary fractions, on which the float arithmetic of the code is     *)
(* exact.                                                                  *)
(***************************************************************************)

\* 1.0, in eighths
One == 8

\* structure types of candidates
StructureTypes == {"bound", "temporal"}

\* confidences of candidates: 0.625, 0.75, 0.875
Confidences == {5, 6, 7}

\* the texts of the candidate the identifier found at a position of its list
\* (bread_top, bread_bottom, filling, rationale), told apart by the filling
Filling(position) == "filling" \o ToString(position)

\* CandidateStructure: structure_type and confidence, which select_candidate
\* reads, and the texts of the candidate, which it only compares: candidates are
\* equal when all their fields are equal
CandidateStructure(filling, structure_type, confidence) ==
    [filling |-> filling, structure_type |-> structure_type, confidence |-> confidence]

\* SelectionConfig
SelectionConfig(min_confidence, novelty_weight, diversity_weight) ==
    [min_confidence |-> min_confidence, novelty_weight |-> novelty_weight,
     diversity_weight |-> diversity_weight]

\* the configurations passed: thresholds 0.5, 0.75 and 1.0
SelectionConfigs ==
    {SelectionConfig(4, 4, 0), SelectionConfig(4, 0, 4),
     SelectionConfig(6, 2, 2), SelectionConfig(8, 2, 2)}

\* corpus_embeddings: None or a list of vectors
CorpusEmbeddings == {<<>>, <<<<1, 0>>>>, <<<<-1, 0>>, <<0, 1>>>>}

\* candidate_embeddings: None or a list of vectors, parallel to the candidates
\* but possibly shorter
CandidateEmbeddings ==
    {<<>>, <<<<1, 0>>>>, <<<<1, 0>>, <<0, 1>>>>, <<<<0, 1>>, <<0, 0>>, <<1, 0>>>>}

\* type_frequencies: None (or the empty dict of an empty corpus), or a dict from
\* structure type to frequency. The frequencies are documented as ratios between
\* 0 and 1 (selector.py:68), but select_candidate takes any float and clamps the
\* bonus (line 116), and SandwichCorpus.get_type_frequencies divides two fields
\* that are set independently (db/corpus.py:71-81); so the dicts passed hold
\* ratios (bound 0.5; bound 0.75 and temporal 0.125) and frequencies outside
\* the range (bound 1.5 and temporal 1.0; bound -0.5 and temporal 0.0)
TypeFrequencies ==
    {<<>>, [t \in {"bound"} |-> 4],
     [t \in StructureTypes |-> IF t = "bound" THEN 6 ELSE 1],
     [t \in StructureTypes |-> IF t = "bound" THEN 12 ELSE 8],
     [t \in StructureTypes |-> IF t = "bound" THEN -4 ELSE 0]}

\* max(values)
Max(values) == CHOOSE x \in values : \A y \in values : y <= x

\* min(a, b)
Min(a, b) == IF a <= b THEN a ELSE b

\* n ** 0.5, for the perfect squares the vectors above give
Sqrt(n) == CHOOSE r \in 0..n : r * r = n

\* sum(x * y for x, y in zip(a, b)), over the first n pairs
RECURSIVE SumProducts(_, _, _)
SumProducts(a, b, n) ==
    IF n = 0 THEN 0 ELSE SumProducts(a, b, n - 1) + a[n] * b[n]

\* _cosine_similarity(a, b)
cosine_similarity(a, b) ==
    LET dot == SumProducts(a, b, Min(Len(a), Len(b)))
        norm_a == Sqrt(SumProducts(a, a, Len(a)))
        norm_b == Sqrt(SumProducts(b, b, Len(b)))
    IN IF norm_a = 0 \/ norm_b = 0 THEN 0 ELSE (One * dot) \div (norm_a * norm_b)

\* max(0.0, min(1.0, bonus))
Clamp(bonus) == IF bonus < 0 THEN 0 ELSE IF bonus > One THEN One ELSE bonus

\* candidates.index(cand): the first position holding an equal candidate
Index(candidates, cand) ==
    CHOOSE i \in 1..Len(candidates) :
        candidates[i] = cand /\ \A j \in 1..(i - 1) : candidates[j] # cand

\* lines 95-109: the novelty bonus of the candidate object at position i
novelty_bonus(a, i) ==
    IF a.corpus_embeddings # <<>> /\ a.candidate_embeddings # <<>>
    THEN LET orig_idx == Index(a.candidates, a.candidates[i])
         IN IF orig_idx <= Len(a.candidate_embeddings)
            THEN LET cand_emb == a.candidate_embeddings[orig_idx]
                     max_sim == Max({cosine_similarity(cand_emb, a.corpus_embeddings[k]) :
                                        k \in 1..Len(a.corpus_embeddings)})
                 IN Clamp(One - max_sim)
            ELSE One
    ELSE One

\* the diversity bonus, but 0 for a type without a frequency
diversity_bonus_unknown_zero(a, i) ==
    LET cand == a.candidates[i]
    IN IF a.type_frequencies # <<>> /\ cand.structure_type \in DOMAIN a.type_frequencies
       THEN Clamp(One - a.type_frequencies[cand.structure_type])
       ELSE 0

\* lines 112-119: the diversity bonus of the candidate object at position i
diversity_bonus(a, i) ==
    LET cand == a.candidates[i]
    IN IF a.type_frequencies # <<>> /\ cand.structure_type \in DOMAIN a.type_frequencies
       THEN Clamp(One - a.type_frequencies[cand.structure_type])
       ELSE One

\* lines 122-126: the final score, in sixty-fourths
final_score(a, i) ==
    One * a.candidates[i].confidence
    + a.config.novelty_weight * novelty_bonus(a, i)
    + a.config.diversity_weight * diversity_bonus(a, i)

\* a filter that drops the candidates at the threshold too
IsViable_strict(confidence, min_confidence) == confidence > min_confidence

\* line 82: c.confidence >= cfg.min_confidence
IsViable(confidence, min_confidence) == confidence >= min_confidence

\* line 82: viable, as the positions in candidates of its objects, in order
viable(a) ==
    SelectSeq([i \in 1..Len(a.candidates) |-> i],
              LAMBDA i : IsViable(a.candidates[i].confidence, a.config.min_confidence))

\* a comparison that lets a later candidate with an equal score win
Better_or_equal(score, best_score) == score >= best_score

\* line 142: final_score > best.final_score
Better(score, best_score) == score > best_score

\* lines 91-149: the position of `best` after the first k viable candidates
\* (0 while best is None)
RECURSIVE best_after(_, _)
best_after(a, k) ==
    IF k = 0 THEN 0
    ELSE LET best == best_after(a, k - 1)
             i == viable(a)[k]
         IN IF best = 0 \/ Better(final_score(a, i), final_score(a, best))
            THEN i ELSE best

\* SelectedCandidate; pos tells which object of the candidates list it holds
SelectedCandidate(a, i) ==
    [candidate |-> a.candidates[i], pos |-> i, final_score |-> final_score(a, i),
     novelty_bonus |-> novelty_bonus(a, i), diversity_bonus |-> diversity_bonus(a, i)]

\* select_candidate(candidates, corpus_embeddings=, candidate_embeddings=,
\* type_frequencies=, config=): <<>> for None
select_candidate(a) ==
    IF a.candidates = <<>> THEN <<>>
    ELSE IF viable(a) = <<>> THEN <<>>
    ELSE <<SelectedCandidate(a, best_after(a, Len(viable(a))))>>

\* the arguments of a select_candidate call
SelectArgs(candidates, corpus_embeddings, candidate_embeddings, type_frequencies, cfg) ==
    [candidates |-> candidates, corpus_embeddings |-> corpus_embeddings,
     candidate_embeddings |-> candidate_embeddings,
     type_frequencies |-> type_frequencies, config |-> cfg]

\* lines 128-140: the bonuses and the score logged for the candidate object at
\* position i
Rationale(a, i) ==
    [pos |-> i, novelty_bonus |-> novelty_bonus(a, i),
     diversity_bonus |-> diversity_bonus(a, i), final_score |-> final_score(a, i)]

\* lines 93-140: what the loop logs, one entry per viable candidate, in order
rationales(a) == [k \in 1..Len(viable(a)) |-> Rationale(a, viable(a)[k])]

\* what a select_candidate call returned and what it logged per candidate
SelectRet(a) ==
    [op |-> "select_candidate", result |-> select_candidate(a),
     scored |-> IF a.candidates = <<>> THEN <<>> ELSE rationales(a)]

\* no select_candidate call made yet
NoSelected == [op |-> "init", result |-> <<>>, scored |-> <<>>]

----------------------------------------------------------------------------
(***************************************************************************)
(* sources/base.py: RateLimiter.  Time is counted in whole seconds; the    *)
(* statements of wait_if_needed take no time, time.sleep takes at least    *)
(* the time asked for.  The method takes no lock and time.sleep releases   *)
(* the interpreter lock, so a second caller of the limiter may run while   *)
(* the first sleeps, or between its test of line 43 and its write of line  *)
(* 48.                                                                     *)
(***************************************************************************)

\* the max_per_minute arguments: intervals of 1, 2 and 3 seconds
MaxPerMinutes == {60, 30, 20}

\* how much longer than asked time.sleep may take
Oversleeps == {0, 1}

\* the threads that call one limiter
Waiters == {1, 2}

\* RateLimiter.__init__(max_per_minute)
RateLimiter(max_per_minute) ==
    [max_per_minute |-> max_per_minute, interval |-> 60 \div max_per_minute,
     last_request |-> 0]

\* a caller of wait_if_needed: the line it is at ("idle": outside the method,
\* "45": in time.sleep, "48": about to write _last_request), whether its call
\* was the limiter's first, and its locals now and wait_time
Waiter(pc, first, at, wait_time) ==
    [pc |-> pc, first |-> first, at |-> at, wait_time |-> wait_time]

\* what the wait_if_needed call that returned last did: whether it was the
\* limiter's first, when it was made, the value it returned, when it returned,
\* and when the call that returned before it returned (-1 if none had); and
\* where each caller is
WaitRet(first, at, waited, returned, prev_returned, caller) ==
    [op |-> "wait_if_needed", first |-> first, at |-> at, waited |-> waited,
     returned |-> returned, prev_returned |-> prev_returned, caller |-> caller]

\* no wait_if_needed call made yet
NoWait ==
    [op |-> "init", first |-> FALSE, at |-> 0, waited |-> 0, returned |-> -1,
     prev_returned |-> -1, caller |-> [t \in Waiters |-> Waiter("idle", FALSE, 0, 0)]]

\* RateLimiter.wait_if_needed, lines 41-45, called by t: the clock and
\* _last_request are read, and the caller starts time.sleep or goes on to line 48
wait_if_needed(t) ==
    LET elapsed == now - limiter.last_request
        wait_time == limiter.interval - elapsed
        first == wret.op = "init" /\ \A u \in Waiters : wret.caller[u].pc = "idle"
    IN /\ wret.caller[t].pc = "idle"
       /\ wret' = [wret EXCEPT !.caller[t] =
                      IF elapsed < limiter.interval
                      THEN Waiter("45", first, now, wait_time)
                      ELSE Waiter("48", first, now, 0)]
       /\ UNCHANGED <<now, limiter>>

\* lines 45-47: time.sleep returns to caller t, `oversleep` later than asked; the
\* caller writes the clock's reading to _last_request and returns wait_time
wait_if_needed_wakes(t, oversleep) ==
    LET c == wret.caller[t]
    IN /\ c.pc = "45"
       /\ now = c.at + c.wait_time + oversleep
       /\ limiter' = [limiter EXCEPT !.last_request = now]
       /\ wret' = WaitRet(c.first, c.at, c.wait_time, now, wret.returned,
                          [wret.caller EXCEPT ![t] = Waiter("idle", FALSE, 0, 0)])
       /\ UNCHANGED now

\* lines 48-49: caller t writes its reading of the clock to _last_request and
\* returns 0.0
wait_if_needed_returns(t) ==
    LET c == wret.caller[t]
    IN /\ c.pc = "48"
       /\ limiter' = [limiter EXCEPT !.last_request = c.at]
       /\ wret' = WaitRet(c.first, c.at, 0, now, wret.returned,
                          [wret.caller EXCEPT ![t] = Waiter("idle", FALSE, 0, 0)])
       /\ UNCHANGED now

----------------------------------------------------------------------------
(***************************************************************************)
(* Two sessions run by one host as tasks of one asyncio event loop         *)
(* (main.py: asyncio.run), each fetching from a source of its own with a   *)
(* RateLimiter of its own. A task runs until it awaits; fetch calls        *)
(* rate_limiter.wait_if_needed(), whose time.sleep does not await, and     *)
(* then awaits the search request; when the search found a link,           *)
(* _fetch_page calls wait_if_needed() again and awaits the page request.   *)
(***************************************************************************)
Sessions == {1, 2}

\* lines 41-44 and 48-49 of wait_if_needed: the time to sleep at time t
WaitTime(lim, t) ==
    LET elapsed == t - lim.last_request
    IN IF elapsed < lim.interval THEN lim.interval - elapsed ELSE 0

\* what the search request of a fetch is answered with (web_search.py 86-122):
\* an HTTP error, a page without results, a first result without href, or a
\* first result with a link
SearchResponses == {"HTTPError", "no_results", "no_href", "link"}

\* a session's fetch: the stage it is at ("ready": its task is runnable, "sent":
\* awaiting the search request, "page": awaiting the page request, "done":
\* returned), when its task became runnable, whether its own limiter allowed a
\* request at that moment, when the task ran wait_if_needed, what that call
\* returned and when it returned
Fetch(phase, ready_at, allowed, started_at, waited, sent_at) ==
    [stage |-> phase, ready_at |-> ready_at, allowed |-> allowed,
     started_at |-> started_at, waited |-> waited, sent_at |-> sent_at]

\* no fetch made yet
NoFetch == Fetch("idle", 0, FALSE, 0, 0, 0)

\* the event loop with the sessions' limiters, each of the given rate
EventLoop(rates) ==
    [limiter |-> [s \in Sessions |-> RateLimiter(rates[s])],
     fetch |-> [s \in Sessions |-> NoFetch]]

\* session s calls source.fetch(query): its task becomes runnable
CreateTask(s) ==
    /\ loop.fetch[s].stage \in {"idle", "done"}
    /\ loop' = [loop EXCEPT !.fetch[s] =
                   Fetch("ready", now, WaitTime(loop.limiter[s], now) = 0, 0, 0, 0)]
    /\ UNCHANGED now

\* web_search.py line 77: the loop runs the task of session s, which calls
\* wait_if_needed; time.sleep keeps the loop's thread until it returns, taking
\* `oversleep` longer than asked, and then the task awaits its HTTP request
RunTask(s, oversleep) ==
    LET wait_time == WaitTime(loop.limiter[s], now)
        returned == IF wait_time > 0 THEN now + wait_time + oversleep ELSE now
    IN /\ loop.fetch[s].stage = "ready"
       /\ now' = returned
       /\ loop' = [loop EXCEPT
                      !.limiter[s].last_request = returned,
                      !.fetch[s] = Fetch("sent", loop.fetch[s].ready_at,
                                         loop.fetch[s].allowed, now, wait_time, returned)]

\* web_search.py lines 82-129: the awaited search request of session s is
\* answered. Without a link to follow fetch returns empty content; with one it
\* calls _fetch_page, whose wait_if_needed keeps the loop's thread as in line
\* 77, and the task awaits the page request
CompleteTask(s, response, oversleep) ==
    LET wait_time == WaitTime(loop.limiter[s], now)
        returned == IF wait_time > 0 THEN now + wait_time + oversleep ELSE now
    IN /\ loop.fetch[s].stage = "sent"
       /\ IF response = "link"
          THEN /\ now' = returned
               /\ loop' = [loop EXCEPT !.limiter[s].last_request = returned,
                                       !.fetch[s].stage = "page"]
          ELSE /\ loop' = [loop EXCEPT !.fetch[s].stage = "done"]
               /\ UNCHANGED now

\* web_search.py lines 133-160: the awaited page request of session s is
\* answered, with an error or a page, and fetch returns
CompletePage(s) ==
    /\ loop.fetch[s].stage = "page"
    /\ loop' = [loop EXCEPT !.fetch[s].stage = "done"]
    /\ UNCHANGED now

\* time passes while no task is runnable: a runnable task is run at once
LoopIdles ==
    /\ \A s \in Sessions : loop.fetch[s].stage # "ready"
    /\ now' = now + 1
    /\ UNCHANGED loop

----------------------------------------------------------------------------
(***************************************************************************)
(* StateMachine.transition as concurrent callers of one machine (machine   *)
(* 1) run it: the method takes no lock, so another caller may run between  *)
(* any two of its statements.                                              *)
(***************************************************************************)
Callers == {1, 2}

\* a caller outside transition(): no call made yet
IdleCaller ==
    [pc |-> "idle", event |-> "", new_state |-> "", old_state |-> "",
     checkpoint |-> <<>>, calls |-> 0, result |-> ""]

\* a caller enters transition(event)
CallTransition(t, event) ==
    /\ th[t].pc = "idle"
    /\ th[t].calls < MaxCalls
    /\ th' = [th EXCEPT ![t].pc = "check", ![t].event = event,
                        ![t].calls = @ + 1, ![t].result = ""]
    /\ UNCHANGED <<smVars>>

\* line 139-140: if not self.can_transition(event): raise InvalidTransitionError
CheckEvent(t) ==
    /\ th[t].pc = "check"
    /\ th' = IF can_transition(1, th[t].event)
             THEN [th EXCEPT ![t].pc = "lookup"]
             ELSE [th EXCEPT ![t].pc = "idle", ![t].result = "InvalidTransitionError"]
    /\ UNCHANGED <<smVars>>

\* line 142: new_state = TRANSITIONS[self.current_state][event]
LookupNewState(t) ==
    /\ th[t].pc = "lookup"
    /\ th' = IF th[t].event \in DOMAIN TRANSITIONS[current_state[1]]
             THEN [th EXCEPT ![t].pc = "old",
                             ![t].new_state = TRANSITIONS[current_state[1]][th[t].event]]
             ELSE [th EXCEPT ![t].pc = "idle", ![t].result = "KeyError"]
    /\ UNCHANGED <<smVars>>

\* line 143: old_state = self.current_state
ReadOldState(t) ==
    /\ th[t].pc = "old"
    /\ th' = [th EXCEPT ![t].pc = "make", ![t].old_state = current_state[1]]
    /\ UNCHANGED <<smVars>>

\* line 145-150: checkpoint = StateCheckpoint(session_id=self.session_id, ...)
MakeCheckpoint(t) ==
    /\ th[t].pc = "make"
    /\ th' = [th EXCEPT ![t].pc = "append",
                        ![t].checkpoint =
                            <<StateCheckpoint(session_id[1], th[t].new_state, "empty",
                                  TransitionReason(th[t].old_state, th[t].event,
                                                   th[t].new_state))>>]
    /\ UNCHANGED <<smVars>>

\* line 151: self.checkpoints.append(checkpoint)
AppendCheckpoint(t) ==
    /\ th[t].pc = "append"
    /\ checkpoints' = [checkpoints EXCEPT ![1] = Append(@, th[t].checkpoint[1])]
    /\ th' = [th EXCEPT ![t].pc = "set"]
    /\ UNCHANGED <<session_id, current_state, ret, nTransitions, nRecovers>>

\* line 152-161: self.current_state = new_state; return new_state
SetCurrentState(t) ==
    /\ th[t].pc = "set"
    /\ current_state' = [current_state EXCEPT ![1] = th[t].new_state]
    /\ nTransitions' = [nTransitions EXCEPT ![1] = @ + 1]
    /\ th' = [th EXCEPT ![t].pc = "idle", ![t].result = th[t].new_state]
    /\ UNCHANGED <<session_id, checkpoints, ret, nRecovers>>

----------------------------------------------------------------------------
(***************************************************************************)
(* Forager.record_success, record_failure and forage as concurrent callers *)
(* of one forager run them: the methods take no lock, so another caller    *)
(* may run between any two of their statements. A caller's pc is the       *)
(* source line it executes next.                                           *)
(***************************************************************************)
ForagerOps == {"record_success", "record_failure", "forage"}

\* the tier and streak state of a forager
ForagerState(tier, failures, successes) ==
    [current_tier |-> tier, consecutive_failures |-> failures,
     consecutive_successes |-> successes]

\* a caller outside the forager's methods: no call made yet; its locals are
\* max_tier (record_success) and the tier _get_tier_sources started from (forage)
IdleForagerCaller == [pc |-> "idle", op |-> "", max_tier |-> 0, tier |-> 0]

\* no concurrent call made yet
NoForagerCalls == [start |-> <<>>, caller |-> [t \in Callers |-> IdleForagerCaller]]

\* the first statement of each method
FirstLine(op) ==
    CASE op = "record_success" -> "129"
      [] op = "record_failure" -> "151"
      [] op = "forage" -> "90"

\* every caller enters its method; start is the forager's state at that moment
BeginCalls(ops) ==
    /\ fth.start = <<>>
    /\ fth' = [start |-> <<ForagerState(current_tier, consecutive_failures,
                                        consecutive_successes)>>,
               caller |-> [t \in Callers |->
                              [pc |-> FirstLine(ops[t]), op |-> ops[t],
                               max_tier |-> 0, tier |-> 0]]]
    /\ UNCHANGED fVars

\* the caller moves on to the given line
GoTo(t, line) == [fth EXCEPT !.caller[t].pc = line]

\* one statement of Forager.record_success, run by caller t
record_success_line(t) ==
    LET c == fth.caller[t]
    IN /\ c.op = "record_success"
       /\ \/ /\ c.pc = "129"
             /\ consecutive_failures' = 0
             /\ fth' = GoTo(t, "130")
             /\ UNCHANGED <<current_tier, consecutive_successes>>
          \/ /\ c.pc = "130"
             /\ consecutive_successes' = consecutive_successes + 1
             /\ fth' = GoTo(t, "132")
             /\ UNCHANGED <<current_tier, consecutive_failures>>
          \/ /\ c.pc = "132"
             /\ fth' = IF consecutive_successes >= config.successes_to_promote
                       THEN GoTo(t, "133")
                       ELSE GoTo(t, "return")
             /\ UNCHANGED <<current_tier, consecutive_failures, consecutive_successes>>
          \/ /\ c.pc = "133"
             /\ fth' = [fth EXCEPT !.caller[t].pc = "134",
                                   !.caller[t].max_tier = max_tier]
             /\ UNCHANGED <<current_tier, consecutive_failures, consecutive_successes>>
          \/ /\ c.pc = "134"
             /\ fth' = IF current_tier < c.max_tier
                       THEN GoTo(t, "136")
                       ELSE GoTo(t, "return")
             /\ UNCHANGED <<current_tier, consecutive_failures, consecutive_successes>>
          \/ /\ c.pc = "136"
             /\ current_tier' = current_tier + 1
             /\ fth' = GoTo(t, "137")
             /\ UNCHANGED <<consecutive_failures, consecutive_successes>>
          \/ /\ c.pc = "137"
             /\ consecutive_successes' = 0
             /\ fth' = GoTo(t, "return")
             /\ UNCHANGED <<current_tier, consecutive_failures>>
       /\ UNCHANGED <<sources, config, run>>

\* one statement of Forager.record_failure, run by caller t
record_failure_line(t) ==
    LET c == fth.caller[t]
    IN /\ c.op = "record_failure"
       /\ \/ /\ c.pc = "151"
             /\ consecutive_successes' = 0
             /\ fth' = GoTo(t, "152")
             /\ UNCHANGED <<current_tier, consecutive_failures>>
          \/ /\ c.pc = "152"
             /\ consecutive_failures' = consecutive_failures + 1
             /\ fth' = GoTo(t, "154")
             /\ UNCHANGED <<current_tier, consecutive_successes>>
          \/ /\ c.pc = "154"
             /\ fth' = IF consecutive_failures >= config.failures_to_demote
                       THEN GoTo(t, "155")
                       ELSE GoTo(t, "return")
             /\ UNCHANGED <<current_tier, consecutive_failures, consecutive_successes>>
          \/ /\ c.pc = "155"
             /\ fth' = IF current_tier > 1
                       THEN GoTo(t, "157")
                       ELSE GoTo(t, "return")
             /\ UNCHANGED <<current_tier, consecutive_failures, consecutive_successes>>
          \/ /\ c.pc = "157"
             /\ current_tier' = current_tier - 1
             /\ fth' = GoTo(t, "158")
             /\ UNCHANGED <<consecutive_failures, consecutive_successes>>
          \/ /\ c.pc = "158"
             /\ consecutive_failures' = 0
             /\ fth' = GoTo(t, "return")
             /\ UNCHANGED <<current_tier, consecutive_successes>>
       /\ UNCHANGED <<sources, config, run>>

\* line 90 of Forager.forage, run by caller t: _get_tier_sources reads
\* current_tier once (line 168); the rest of forage reads no forager state
forage_line(t) ==
    LET c == fth.caller[t]
    IN /\ c.op = "forage"
       /\ c.pc = "90"
       /\ fth' = [fth EXCEPT !.caller[t].pc = "return",
                             !.caller[t].tier = current_tier]
       /\ UNCHANGED fVars

\* the forager's state after record_success is run alone from state s
after_record_success(s) ==
    LET successes == s.consecutive_successes + 1
        promote == successes >= config.successes_to_promote /\ s.current_tier < max_tier
    IN ForagerState(IF promote THEN s.current_tier + 1 ELSE s.current_tier,
                    0,
                    IF promote THEN 0 ELSE successes)

\* the forager's state after record_failure is run alone from state s
after_record_failure(s) ==
    LET failures == s.consecutive_failures + 1
        demote == failures >= config.failures_to_demote /\ s.current_tier > 1
    IN ForagerState(IF demote THEN s.current_tier - 1 ELSE s.current_tier,
                    IF demote THEN 0 ELSE failures,
                    0)

\* the forager's state after the method `op` is run alone from state s
AfterCall(op, s) ==
    CASE op = "record_success" -> after_record_success(s)
      [] op = "record_failure" -> after_record_failure(s)
      [] OTHER -> s

----------------------------------------------------------------------------
(***************************************************************************)
(* Properties of the state machine.                                        *)
(***************************************************************************)

\* the states of a log, in order
LogStates(log) == [i \in 1..Len(log) |-> log[i].state]

\* the events legal in state s
Row(s) == DOMAIN TRANSITIONS[s]

\* the (state, event) pairs of the table
TablePairs == {p \in AgentState \X Events : p[2] \in Row(p[1])}

\* C1: for every state S and event E not in S's row, transition(E) in state S raises
\* InvalidTransitionError carrying S and E and leaves current_state, the checkpoint
\* log and session_id as they were.
C1_IllegalEventRejected ==
    [][\A m \in Machines :
          (ret'.op = "transition" /\ ret'.m = m /\ ret'.event \notin Row(current_state[m]))
          => /\ ret'.raised = "InvalidTransitionError"
             /\ ret'.exc_state = current_state[m]
             /\ current_state' = current_state
             /\ checkpoints' = checkpoints
             /\ session_id' = session_id]_vars

\* C1 witness: a call rejected in STORING, the machine still in STORING
C1_Witness ==
    /\ ret.op = "transition"
    /\ ret.raised = "InvalidTransitionError"
    /\ ret.exc_state = "storing"
    /\ ret.event = "start_foraging"
    /\ current_state[1] = "storing"

\* the happy path of the pipeline: events and the states they lead through
HappyEvents ==
    <<"start_foraging", "content_found", "content_accepted", "candidates_found",
      "candidate_selected", "assembly_complete", "accepted", "stored">>

HappyStates ==
    <<"idle", "foraging", "preprocessing", "identifying", "selecting", "assembling",
      "validating", "storing", "idle">>

\* the events that lead back to IDLE
BackToIdle == {"content_rejected", "no_candidates", "none_viable", "rejected", "forage_failed"}

\* what C2 says of a transition call: a call made with an event of the current
\* state's row succeeds, returns the table's next state and makes it current; the
\* happy path's events lead through the happy path's states (review like accepted),
\* the rejection events lead back to IDLE
TableFollowed ==
    \A m \in Machines :
        (ret'.op = "transition" /\ ret'.m = m /\ ret'.event \in Row(current_state[m]))
        => /\ ret'.raised = ""
           /\ ret'.state = TRANSITIONS[current_state[m]][ret'.event]
           /\ current_state'[m] = ret'.state
           /\ \A i \in 1..Len(HappyEvents) :
                 (current_state[m] = HappyStates[i]
                  /\ ret'.event \in {HappyEvents[i]} \cup
                                    (IF HappyEvents[i] = "accepted" THEN {"review"} ELSE {}))
                 => current_state'[m] = HappyStates[i + 1]
           /\ ret'.event \in BackToIdle => current_state'[m] = "idle"

\* C2 as stated: the table has 22 (state, event) pairs and every one of them is
\* followed by transition
C2_TwentyTwoPairsFollowed ==
    [][Cardinality(TablePairs) = 22 /\ TableFollowed]_vars

\* C2 amended: the table has 24 (state, event) pairs and every one of them is
\* followed by transition: the call succeeds, returns the table's next state and
\* sets current_state to it; the happy path leads from IDLE through the seven
\* pipeline states back to IDLE and the five rejection events lead back to IDLE.
C2_TablePairsFollowed ==
    [][Cardinality(TablePairs) = 24 /\ TableFollowed]_vars

\* C2 witness: the happy path walked to its end
C2_Witness ==
    /\ LogStates(checkpoints[1]) =
          <<"foraging", "preprocessing", "identifying", "selecting", "assembling",
            "validating", "storing", "idle">>
    /\ ret.op = "transition" /\ ret.event = "stored" /\ ret.state = "idle"
    /\ current_state[1] = "idle"

\* C3: on a fresh machine driven only by transition calls, after N successful
\* transitions the log has exactly N entries and the latest checkpoint's state is
\* current_state (5 after start_foraging, content_found, content_accepted, error,
\* fatal, which ends in SESSION_END; 8 after the happy path).
C3_LogCountsTransitions ==
    /\ Len(checkpoints[1]) = nTransitions[1]
    /\ get_latest_checkpoint(1) # <<>> => get_latest_checkpoint(1)[1].state = current_state[1]
    /\ nTransitions[1] = 0 => current_state[1] = "idle"

\* C3 witness: the five-step run into SESSION_END, with failed calls on the way
C3_Witness ==
    /\ LogStates(checkpoints[1]) =
          <<"foraging", "preprocessing", "identifying", "error_recovery", "session_end">>
    /\ nTransitions[1] = 5
    /\ current_state[1] = "session_end"
    /\ ret.raised = "InvalidTransitionError"

\* C4: while current_state is SESSION_END, can_transition is false for every event
\* and every transition call raises InvalidTransitionError.
C4_SessionEndTerminal ==
    [][\A m \in Machines :
          (current_state[m] = "session_end" /\ ret'.m = m)
          => /\ \A e \in EventInputs : ~can_transition(m, e)
             /\ ret'.op = "can_transition" => ret'.flag = FALSE
             /\ ret'.op = "transition"
                    => ret'.raised = "InvalidTransitionError"
                       /\ current_state'[m] = "session_end"]_vars

\* C4 witness: a transition call rejected in SESSION_END
C4_Witness ==
    /\ current_state[1] = "session_end"
    /\ ret.op = "transition" /\ ret.m = 1
    /\ ret.raised = "InvalidTransitionError"
    /\ ret.exc_state = "session_end"

\* C5: a fresh machine M2 that recovers from the latest checkpoint of a machine M1
\* in state X is in state X with M1's session_id, and from then on every event
\* applied to both has the same outcome on each: the same success or
\* InvalidTransitionError and the same resulting current_state.
C5_RecoveredBehavesAlike ==
    stage = "replay" =>
        /\ ret.op = "recover_from_checkpoint"
              => /\ current_state[2] = current_state[1]
                 /\ session_id[2] = session_id[1]
        /\ (ret.op = "transition" /\ ret.m = 2)
              => /\ ret.event = m1_ret.event
                 /\ ret.raised = m1_ret.raised
                 /\ ret.exc_state = m1_ret.exc_state
                 /\ ret.state = m1_ret.state
                 /\ current_state[2] = current_state[1]
                 /\ session_id[2] = session_id[1]

\* C5 witness: after the recovery two events succeeded on both machines, the last
\* one out of a state the recovery led into
C5_Witness ==
    /\ stage = "replay"
    /\ ret.op = "transition" /\ ret.m = 2 /\ ret.raised = ""
    /\ Len(checkpoints[2]) = 3
    /\ current_state[2] = "selecting"
    /\ session_id[2] = "u1"

\* the states s(1), s(2), ... are a path of the table that starts in state `from`
IsTablePath(from, states) ==
    \A i \in 1..Len(states) :
        LET prev == IF i = 1 THEN from ELSE states[i - 1]
        IN \E e \in Row(prev) : TRANSITIONS[prev][e] = states[i]

\* C6 as stated: after any sequence of transition and recover_from_checkpoint calls
\* the logged states form a path of the table from IDLE
C6_LogIsTablePath ==
    \A m \in Machines : IsTablePath("idle", LogStates(checkpoints[m]))

\* C6 amended: every entry appended by a transition call records a table successor
\* of the state logged just before it (of IDLE when it is the first entry); the
\* logged states form a path of the table from IDLE on a machine on which
\* recover_from_checkpoint was never called.
C6_TransitionEntriesFollowTable ==
    [][\A m \in Machines :
          /\ (ret'.op = "transition" /\ ret'.m = m /\ ret'.raised = "")
                => LET prev == IF checkpoints[m] = <<>> THEN "idle"
                               ELSE checkpoints[m][Len(checkpoints[m])].state
                       last == checkpoints'[m][Len(checkpoints'[m])]
                   IN /\ Len(checkpoints'[m]) = Len(checkpoints[m]) + 1
                      /\ \E e \in Row(prev) : TRANSITIONS[prev][e] = last.state
          /\ nRecovers'[m] = 0 => IsTablePath("idle", LogStates(checkpoints'[m]))]_vars

\* C6 witness: a transition made after a recovery appended the successor of the
\* recovered state
C6_Witness ==
    /\ nRecovers[2] = 1 /\ nTransitions[2] = 1
    /\ LogStates(checkpoints[2]) = <<"foraging", "preprocessing">>
    /\ ret.op = "transition" /\ ret.m = 2
    /\ nRecovers[1] = 0 /\ Len(checkpoints[1]) = 1

\* C7 as stated: over the public operations every change of current_state from S
\* to S' is a step S --event--> S' of the table
C7_OnlyTransitionChangesState ==
    [][\A m \in Machines :
          current_state'[m] # current_state[m]
          => \E e \in Row(current_state[m]) :
                 current_state'[m] = TRANSITIONS[current_state[m]][e]]_vars

\* C7 amended: current_state changes only through a successful transition call or
\* a recover_from_checkpoint call; a change made by transition is a step
\* S --event--> S' of the table, a recover_from_checkpoint sets it to the given
\* checkpoint's state whatever the table says; can_transition,
\* get_latest_checkpoint and a rejected transition never change it.
C7_StateChangesByTransitionOrRecover ==
    [][\A m \in Machines :
          current_state'[m] # current_state[m]
          => /\ ret'.m = m
             /\ \/ /\ ret'.op = "transition" /\ ret'.raised = ""
                   /\ ret'.event \in Row(current_state[m])
                   /\ current_state'[m] = TRANSITIONS[current_state[m]][ret'.event]
                \/ /\ ret'.op = "recover_from_checkpoint"
                   /\ current_state'[m] = checkpoints'[m][Len(checkpoints'[m])].state]_vars

\* C7 witness: a recovery took a fresh machine from IDLE to PREPROCESSING, which is
\* no step of the table
C7_Witness ==
    /\ ret.op = "recover_from_checkpoint" /\ ret.m = 2
    /\ nTransitions[2] = 0 /\ nRecovers[2] = 1
    /\ current_state[2] = "preprocessing"

\* C8: transition is indivisible for concurrent callers of one machine: no call
\* ends with an error other than InvalidTransitionError, and once the callers have
\* returned the log holds one checkpoint per successful call, the latest
\* checkpoint's state is current_state, and every successful call was legal for
\* the state it took effect in (the logged states are a path of the table).
C8_TransitionIndivisible ==
    /\ \A t \in Callers : th[t].result # "KeyError"
    /\ (\A t \in Callers : th[t].pc = "idle")
          => /\ Len(checkpoints[1]) = nTransitions[1]
             /\ get_latest_checkpoint(1) # <<>>
                   => get_latest_checkpoint(1)[1].state = current_state[1]
             /\ IsTablePath("idle", LogStates(checkpoints[1]))

\* C19: a can_transition call leaves current_state, the checkpoint log and
\* session_id as they were, and when the next call on the machine is
\* transition with the same event, that call succeeds exactly when
\* can_transition returned true.
C19_CanTransitionAgreesWithTransition ==
    [][/\ ret'.op = "can_transition"
            => UNCHANGED <<session_id, current_state, checkpoints>>
       /\ (ret.op = "can_transition" /\ ret'.op = "transition"
               /\ ret'.m = ret.m /\ ret'.event = ret.event)
            => (ret.flag <=> ret'.raised = "")
       /\ (ret.op = "can_transition" /\ ret'.op = "transition"
               /\ ret'.m = ret.m /\ ret'.event = ret.event /\ ret.flag)
            => current_state'[ret.m] = TRANSITIONS[current_state[ret.m]][ret.event]]_vars

\* C19 witness: can_transition("stored") returned true in STORING, the log
\* still holding the seven checkpoints of the way there
C19_Witness ==
    /\ ret.op = "can_transition" /\ ret.m = 1 /\ ret.event = "stored" /\ ret.flag
    /\ current_state[1] = "storing"
    /\ Len(checkpoints[1]) = 7
    /\ checkpoints[1][7].state = "storing"

----------------------------------------------------------------------------
(***************************************************************************)
(* Properties of the forager.                                              *)
(***************************************************************************)

\* C9: after any sequence of record_success and record_failure calls on a forager
\* that starts at tier 1 with both streaks 0, current_tier lies in
\* [1, highest configured tier key] and the two streaks are never both nonzero;
\* record_failure at tier 1 never lowers the tier, record_success at the highest
\* configured tier never raises it.
C9_TierInRangeStreaksExclusive ==
    /\ current_tier >= 1
    /\ DOMAIN sources # {} => \E k \in DOMAIN sources : current_tier <= k
    /\ DOMAIN sources = {} => current_tier = 1
    /\ ~(consecutive_successes > 0 /\ consecutive_failures > 0)
    /\ (run.kind = "failure" /\ run.start_tier = 1) => current_tier = 1
    /\ (run.kind = "success" /\ DOMAIN sources # {}
            /\ run.start_tier = MaxKey(DOMAIN sources)) => current_tier = run.start_tier

\* C9 witness: at the highest configured tier above 1, a success streak that has
\* passed the promotion threshold without a promotion
C9_Witness ==
    /\ DOMAIN sources = {1, 3}
    /\ current_tier = 3
    /\ run.kind = "success" /\ run.start_tier = 3
    /\ consecutive_successes > config.successes_to_promote
    /\ consecutive_failures = 0

\* C10: from tier T > 1 with failure streak 0, exactly failures_to_demote
\* consecutive record_failure calls leave current_tier = T-1 and
\* consecutive_failures = 0, and the tier is T after each of the first
\* failures_to_demote - 1 of them.
C10_DemotionAfterExactStreak ==
    (run.kind = "failure" /\ run.start_tier > 1) =>
        /\ run.calls <= config.failures_to_demote
        /\ run.calls < config.failures_to_demote
              => current_tier = run.start_tier /\ consecutive_failures = run.calls
        /\ run.calls = config.failures_to_demote
              => current_tier = run.start_tier - 1 /\ consecutive_failures = 0

\* C10 witness: the third of three failures at tier 3 demoted to tier 2
C10_Witness ==
    /\ config.failures_to_demote = 3
    /\ run.kind = "failure" /\ run.start_tier = 3 /\ run.calls = 3
    /\ current_tier = 2
    /\ consecutive_failures = 0

\* C11: record_success zeroes consecutive_failures and increments
\* consecutive_successes; when the success streak reaches successes_to_promote
\* and a strictly higher tier key is configured, current_tier advances by
\* exactly one and the success streak is reset to 0; before the streak reaches
\* the threshold the tier does not change.
C11_SuccessPromotesAtThreshold ==
    [][run'.kind = "success" =>
         LET reached == consecutive_successes + 1 >= config.successes_to_promote
             higher == \E k \in DOMAIN sources : k > current_tier
         IN /\ consecutive_failures' = 0
            /\ (reached /\ higher) =>
                   /\ current_tier' = current_tier + 1
                   /\ consecutive_successes' = 0
            /\ ~(reached /\ higher) =>
                   consecutive_successes' = consecutive_successes + 1
            /\ ~reached => current_tier' = current_tier]_vars

\* C11 witness: the third of three successes at tier 1 promoted to tier 2
C11_Witness ==
    /\ config.successes_to_promote = 3
    /\ run.kind = "success" /\ run.start_tier = 1 /\ run.calls = 3
    /\ current_tier = 2
    /\ consecutive_successes = 0

\* C12 as stated: a record_success call made while the failure streak is
\* nonzero resets consecutive_failures to 0 and leaves current_tier unchanged,
\* whatever the thresholds and tiers.
C12_InterruptingSuccessKeepsTier ==
    (run.kind = "success" /\ run.broke > 0) =>
        /\ consecutive_failures = 0
        /\ current_tier = run.start_tier

\* C12: a record_success call made while the failure streak is nonzero resets
\* consecutive_failures to 0; it leaves current_tier unchanged unless
\* successes_to_promote is 1 and a strictly higher tier key is configured, and
\* then it raises current_tier by one.
C12_InterruptingSuccessKeepsTierBelowThreshold ==
    (run.kind = "success" /\ run.broke > 0) =>
        /\ consecutive_failures = 0
        /\ current_tier =
              IF config.successes_to_promote = 1
                    /\ \E k \in DOMAIN sources : k > run.start_tier
              THEN run.start_tier + 1
              ELSE run.start_tier

\* C12 witness: a success after two failures at tier 2, tier still 2
C12_Witness ==
    /\ run.kind = "success" /\ run.broke = 2
    /\ run.start_tier = 2
    /\ current_tier = 2
    /\ consecutive_failures = 0
    /\ consecutive_successes = 1

\* C13 as stated: whenever the chosen source's fetch or fetch_random raises
\* any exception or returns empty content, forage returns None and nothing
\* propagates; forage returns a ForagingResult only when the source returned
\* non-empty content.
C13_AnySourceFailureAbsorbed ==
    fret.op = "forage" =>
        /\ fret.outcome \in {"Exception", "BaseException", "empty"}
              => fret.raised = "" /\ fret.result = <<>>
        /\ fret.result # <<>> => fret.outcome = "content"

\* C13: whenever the chosen source's fetch or fetch_random raises an exception
\* derived from Exception or returns empty content, forage returns None and
\* nothing propagates; an exception derived from BaseException only
\* (KeyboardInterrupt, SystemExit, asyncio.CancelledError) leaves forage;
\* forage returns a ForagingResult only when the source returned non-empty
\* content.
C13_ExceptionOrEmptyAbsorbed ==
    fret.op = "forage" =>
        /\ fret.outcome \in {"Exception", "empty"}
              => fret.raised = "" /\ fret.result = <<>>
        /\ fret.outcome = "BaseException"
              => fret.raised = "BaseException" /\ fret.result = <<>>
        /\ fret.result # <<>>
              => fret.outcome = "content" /\ fret.result[1].source_result.content # ""

\* C13 witness: the source's fetch raised an Exception and forage returned None
C13_Witness ==
    /\ fret.op = "forage"
    /\ fret.method = "fetch"
    /\ fret.outcome = "Exception"
    /\ fret.raised = ""
    /\ fret.result = <<>>

\* C14 as stated: when no tier has any source configured, forage fails with a
\* 'no sources configured' failure that reaches the caller; it does not return
\* the absent result.
C14_NoSourcesPropagates ==
    (fret.op = "forage" /\ \A t \in DOMAIN sources : sources[t] = <<>>) =>
        fret.raised = "no sources configured"

----------------------------------------------------------------------------
(***************************************************************************)
(* Properties of the error router.                                         *)
(***************************************************************************)

\* C15: determine_recovery_event returns "fatal" or "recovered" for every
\* error: "fatal" exactly when the error is a FatalError, whatever else it is
\* an instance of, and "recovered" for content, parse, retryable and every
\* other error.
C15_RouterFatalExactlyForFatal ==
    routed.op = "determine_recovery_event" =>
        /\ routed.event \in {"fatal", "recovered"}
        /\ routed.event = "fatal" <=> "FatalError" \in routed.error

\* C15 witness: an error that is both a FatalError and a ContentError was
\* routed to "fatal"
C15_Witness ==
    /\ routed.op = "determine_recovery_event"
    /\ routed.error = {"FatalError", "ContentError"}
    /\ routed.event = "fatal"

\* C16: a failure in a pipeline state drives two transitions that both
\* succeed: transition("error") leads to ERROR_RECOVERY, and transition with
\* the event determine_recovery_event returned leads from there to SESSION_END
\* when the error is fatal and to IDLE otherwise; neither call raises
\* InvalidTransitionError.
C16_FailureDrivesTransitions ==
    /\ failure.stage # "none" => failure.from \in PipelineStates
    /\ failure.stage = "raised" =>
          /\ ret.op = "transition" /\ ret.event = "error" /\ ret.raised = ""
          /\ current_state[1] = "error_recovery"
    /\ failure.stage = "handled" =>
          /\ ret.op = "transition" /\ ret.event = routed.event /\ ret.raised = ""
          /\ current_state[1] = IF "FatalError" \in failure.error
                                THEN "session_end" ELSE "idle"

\* C16 witness: a ParseError raised in STORING was handled and the machine is
\* back in IDLE
C16_Witness ==
    /\ failure = Failure("handled", {"ParseError"}, "storing")
    /\ ret.event = "recovered"
    /\ current_state[1] = "idle"

----------------------------------------------------------------------------
(***************************************************************************)
(* Properties of the selector.                                             *)
(***************************************************************************)

\* the positions of the candidates with confidence >= min_confidence
Eligible(a) ==
    {i \in 1..Len(a.candidates) : a.candidates[i].confidence >= a.config.min_confidence}

\* C17: select_candidate returns None when the list is empty or no candidate
\* has confidence >= min_confidence; with no corpus embeddings and no type
\* frequencies it returns a candidate of maximum confidence among those with
\* confidence >= min_confidence; a returned candidate always has
\* confidence >= min_confidence.
C17_MaxConfidenceWithoutContext ==
    sel_ret.op = "select_candidate" =>
        LET a == sel_args
            confidences == {a.candidates[i].confidence : i \in Eligible(a)}
        IN /\ Eligible(a) = {} => sel_ret.result = <<>>
           /\ sel_ret.result # <<>> =>
                 sel_ret.result[1].candidate.confidence >= a.config.min_confidence
           /\ (Eligible(a) # {} /\ a.corpus_embeddings = <<>> /\ a.type_frequencies = <<>>)
                 => /\ sel_ret.result # <<>>
                    /\ sel_ret.result[1].candidate.confidence = Max(confidences)

\* C17 witness: confidences 0.625, 0.875, 0.75 with no corpus embeddings and no
\* type frequencies: the second candidate is returned
C17_Witness ==
    /\ sel_ret.op = "select_candidate"
    /\ Len(sel_args.candidates) = 3
    /\ sel_args.candidates[1].confidence = 5
    /\ sel_args.candidates[2].confidence = 7
    /\ sel_args.candidates[3].confidence = 6
    /\ sel_args.corpus_embeddings = <<>>
    /\ sel_args.type_frequencies = <<>>
    /\ sel_ret.result # <<>>
    /\ sel_ret.result[1].pos = 2

\* C18: the candidate select_candidate returns is, among those with
\* confidence >= min_confidence, one whose final score confidence +
\* novelty_weight * novelty_bonus + diversity_weight * diversity_bonus is
\* greatest, and the first such in input order; so the inputs determine the
\* result.
C18_FirstOfGreatestScore ==
    (sel_ret.op = "select_candidate" /\ sel_ret.result # <<>>) =>
        LET a == sel_args
            r == sel_ret.result[1]
        IN /\ r.pos \in Eligible(a)
           /\ r.candidate = a.candidates[r.pos]
           /\ r.final_score = One * r.candidate.confidence
                                + a.config.novelty_weight * r.novelty_bonus
                                + a.config.diversity_weight * r.diversity_bonus
           /\ \A i \in Eligible(a) :
                 /\ final_score(a, i) <= r.final_score
                 /\ i < r.pos => final_score(a, i) < r.final_score

\* C18 witness: the first candidate is returned although a later, different
\* candidate of lower confidence has the same final score through its bonuses
C18_Witness ==
    /\ sel_ret.op = "select_candidate"
    /\ sel_ret.result # <<>>
    /\ sel_ret.result[1].pos = 1
    /\ \E j \in Eligible(sel_args) :
          /\ j > 1
          /\ sel_args.candidates[j].confidence < sel_args.candidates[1].confidence
          /\ final_score(sel_args, j) = sel_ret.result[1].final_score

----------------------------------------------------------------------------
(***************************************************************************)
(* Properties of the rate limiter.                                         *)
(***************************************************************************)

\* C20 as stated: the first wait_if_needed call of a limiter returns 0.0
\* without waiting; two consecutive calls return at least interval seconds
\* apart; a call made sooner than interval after the previous admitted request
\* waits for the remaining time.
C20_FirstCallFreeLaterCallsSpaced ==
    wret.op = "wait_if_needed" =>
        /\ wret.first => wret.waited = 0 /\ wret.returned = wret.at
        /\ ~wret.first =>
              /\ wret.returned - wret.prev_returned >= limiter.interval
              /\ wret.at - wret.prev_returned < limiter.interval
                    => /\ wret.waited = limiter.interval - (wret.at - wret.prev_returned)
                       /\ wret.returned >= wret.at + wret.waited

----------------------------------------------------------------------------
\* C21: concurrent calls of record_success, record_failure and forage on one
\* forager end as some sequential order of the calls would: current_tier
\* stays within 1..max_tier, and once the callers have returned the two streak
\* counters are not both nonzero and there is an order of the calls that, run
\* one call after the other from the state the calls started in, ends in the
\* forager's state and shows each forage call the tier it read.
C21_ForagerCallsSequential ==
    /\ current_tier \in 1..max_tier
    /\ (fth.start # <<>> /\ \A t \in Callers : fth.caller[t].pc = "return")
          => /\ ~(consecutive_failures > 0 /\ consecutive_successes > 0)
             /\ \E first \in Callers, second \in Callers :
                   LET s0 == fth.start[1]
                       s1 == AfterCall(fth.caller[first].op, s0)
                       s2 == AfterCall(fth.caller[second].op, s1)
                   IN /\ first # second
                      /\ s2 = ForagerState(current_tier, consecutive_failures,
                                           consecutive_successes)
                      /\ fth.caller[first].op = "forage"
                            => fth.caller[first].tier = s0.current_tier
                      /\ fth.caller[second].op = "forage"
                            => fth.caller[second].tier = s1.current_tier

\* C22: the checkpoint appended by a successful transition(event, data) from
\* state S to state S' records S', the machine's session_id, the data passed
\* (the empty dict when None is passed) and the description
\* "<S> --[<event>]--> <S'>"; the description's from-state is the state of the
\* previous log entry (IDLE when the log was empty) and its to-state is the
\* checkpoint's own state.
C22_CheckpointRecordsTransition ==
    [][\A m \in Machines :
          nTransitions'[m] = nTransitions[m] + 1
             => LET log == checkpoints'[m]
                    cp == log[Len(log)]
                    S == current_state[m]
                    event == ret'.event
                    data == ret'.data
                IN /\ Len(log) = Len(checkpoints[m]) + 1
                   /\ cp.state = ret'.state
                   /\ cp.state = current_state'[m]
                   /\ cp.session_id = session_id'[m]
                   /\ cp.session_id = session_id[m]
                   /\ cp.data = IF data = "None" THEN "empty" ELSE data
                   /\ cp.transition_reason = <<S, " --[", event, "]--> ", cp.state>>
                   /\ cp.transition_reason[1] =
                         IF checkpoints[m] = <<>>
                         THEN "idle"
                         ELSE checkpoints[m][Len(checkpoints[m])].state
                   /\ cp.transition_reason[5] = cp.state]_vars

\* C22 witness: a transition made with a payload and one made with None or the
\* empty dict were logged, and a machine restored from a checkpoint has made a
\* transition after it.
C22_Witness ==
    /\ \E i \in 1..Len(checkpoints[1]) : checkpoints[1][i].data = "p1"
    /\ \E i \in 1..Len(checkpoints[1]) : checkpoints[1][i].data = "empty"
    /\ nRecovers[2] = 1 /\ nTransitions[2] >= 1
    /\ Len(checkpoints[2]) = 2
    /\ checkpoints[2][2].transition_reason[1] = checkpoints[2][1].state

\* C23: the checkpoint log is append-only: every operation leaves the entries
\* the log had, in their order; a successful transition and a
\* recover_from_checkpoint add one entry at the end of the log of the machine
\* they are called on, and can_transition, get_latest_checkpoint and a
\* rejected transition add none.
C23_LogAppendOnly ==
    [][\A m \in Machines :
          LET old == checkpoints[m]
              new == checkpoints'[m]
              adds == /\ ret'.m = m
                      /\ \/ ret'.op = "recover_from_checkpoint"
                         \/ ret'.op = "transition" /\ ret'.raised = ""
          IN /\ Len(new) = Len(old) + (IF adds THEN 1 ELSE 0)
             /\ SubSeq(new, 1, Len(old)) = old]_vars

\* C23 witness: a machine whose log holds a restored checkpoint followed by a
\* transition's checkpoint has just rejected a transition.
C23_Witness ==
    /\ Len(checkpoints[2]) = 2
    /\ nRecovers[2] = 1 /\ nTransitions[2] = 1
    /\ checkpoints[2][1] \in {checkpoints[1][i] : i \in 1..Len(checkpoints[1])}
    /\ ret.op = "transition" /\ ret.m = 2 /\ ret.raised = "InvalidTransitionError"

\* C24: get_latest_checkpoint returns None exactly when the machine has made
\* no successful transition and no recovery, and the last entry of the log
\* otherwise; called directly after recover_from_checkpoint(cp) on the same
\* machine it returns cp, data included, and cp's state is current_state.
C24_LatestIsLastEntry ==
    [][ret'.op = "get_latest_checkpoint"
          => LET m == ret'.m
                 log == checkpoints'[m]
             IN /\ ret'.cp = <<>> <=> (nTransitions'[m] = 0 /\ nRecovers'[m] = 0)
                /\ ret'.cp # <<>> => ret'.cp = <<log[Len(log)]>>
                /\ (ret.op = "recover_from_checkpoint" /\ ret.m = m)
                      => /\ ret'.cp = ret.cp
                         /\ ret'.cp[1].data = ret.cp[1].data
                         /\ ret'.cp[1].state = current_state'[m]]_vars

\* C24 witness: get_latest_checkpoint has just returned a checkpoint with a
\* payload, written by machine 1, on machine 2, whose only operation so far
\* was the recovery from it.
C24_Witness ==
    /\ ret.op = "get_latest_checkpoint" /\ ret.m = 2
    /\ nRecovers[2] = 1 /\ nTransitions[2] = 0
    /\ ret.cp # <<>>
    /\ ret.cp[1].data = "p1"
    /\ ret.cp[1].session_id = "u1"
    /\ ret.cp[1].state = current_state[2]

\* C25: the source a forage call invokes is one of the sources configured
\* for the highest tier t in 1..current_tier whose list is non-empty; no
\* source of a tier above current_tier is invoked, and a call invokes at most
\* one source, once (none when no tier in 1..current_tier has a source).
C25_SourceOfHighestUsableTier ==
    fret.op = "forage"
       => LET usable == {t \in 1..fret.tier :
                            t \in DOMAIN sources /\ sources[t] # <<>>}
              names(t) == {sources[t][i].name : i \in 1..Len(sources[t])}
          IN /\ usable = {} => fret.source_name = "" /\ fret.method = ""
             /\ usable # {}
                   => /\ fret.method \in {"fetch", "fetch_random"}
                      /\ \E t \in usable :
                            /\ \A u \in usable : u <= t
                            /\ fret.source_name \in names(t)
                      /\ \A t \in DOMAIN sources :
                            t > fret.tier => fret.source_name \notin names(t)

\* C25 witness: a forage call made at tier 2, where tier 2 has no source,
\* tier 1 has two and tier 3 has one, invoked the second source of tier 1.
C25_Witness ==
    /\ fret.op = "forage" /\ fret.tier = 2
    /\ {1, 2, 3} \subseteq DOMAIN sources
    /\ sources[3] # <<>>
    /\ sources[2] = <<>>
    /\ Len(sources[1]) = 2
    /\ fret.source_name = sources[1][2].name
    /\ fret.method = "fetch"

\* C26 as stated: forage calls the source's fetch with the curiosity prompt
\* whenever a prompt is supplied, the empty string included, and fetch_random
\* only when none is supplied; a successful result carries the name of the
\* source invoked and the prompt supplied.
C26_AnyPromptFetched ==
    (fret.op = "forage" /\ fret.method # "")
       => /\ fret.curiosity # "None"
                => fret.method = "fetch" /\ fret.query = fret.curiosity
          /\ fret.method = "fetch_random" => fret.curiosity = "None"
          /\ fret.result # <<>>
                => /\ fret.result[1].source_name = fret.source_name
                   /\ fret.result[1].curiosity_prompt = fret.curiosity

\* C26 amended: forage calls the source's fetch with the curiosity prompt
\* when a non-empty prompt is supplied, and fetch_random when the prompt is
\* None or the empty string; a successful result carries the name of the
\* source invoked and the curiosity argument as it was passed.
C26_NonEmptyPromptFetched ==
    (fret.op = "forage" /\ fret.method # "")
       => /\ fret.curiosity \notin {"None", ""}
                => fret.method = "fetch" /\ fret.query = fret.curiosity
          /\ fret.curiosity \in {"None", ""} => fret.method = "fetch_random"
          /\ fret.result # <<>>
                => /\ fret.result[1].source_name = fret.source_name
                   /\ fret.result[1].curiosity_prompt = fret.curiosity

\* C26 witness: a forage call given the empty string called fetch_random on
\* the second source of its tier and returned that source's content.
C26_Witness ==
    /\ fret.op = "forage" /\ fret.curiosity = ""
    /\ fret.method = "fetch_random"
    /\ fret.tier \in DOMAIN sources
    /\ Len(sources[fret.tier]) = 2
    /\ fret.source_name = sources[fret.tier][2].name
    /\ fret.result # <<>>
    /\ fret.result[1].curiosity_prompt = ""

\* C27: each determine_recovery_event call emits one log record, at error
\* severity when it returns "fatal" and at warning severity otherwise, and the
\* record includes the failure's reason code whatever the failure's kind.
C27_LogRecordCarriesReason ==
    routed.op = "determine_recovery_event"
       => /\ routed.level = IF routed.event = "fatal" THEN "error" ELSE "warning"
          /\ routed.with_reason

\* C28: the novelty bonus computed for the candidate at input position i is,
\* when corpus embeddings and candidate embeddings are supplied and position i
\* has an embedding, 1 minus the greatest cosine similarity between
\* candidate_embeddings[i] (the candidate's own embedding, also when an equal
\* candidate stands at another position) and the corpus embeddings, clamped to
\* [0,1]; in every other case it is 1.0.
C28_NoveltyFromOwnEmbedding ==
    sel_ret.op = "select_candidate"
       => \A k \in 1..Len(sel_ret.scored) :
             LET a == sel_args
                 i == sel_ret.scored[k].pos
                 similarities ==
                     {cosine_similarity(a.candidate_embeddings[i], a.corpus_embeddings[c]) :
                         c \in 1..Len(a.corpus_embeddings)}
             IN sel_ret.scored[k].novelty_bonus =
                   IF /\ a.corpus_embeddings # <<>>
                      /\ a.candidate_embeddings # <<>>
                      /\ i <= Len(a.candidate_embeddings)
                   THEN Clamp(One - Max(similarities))
                   ELSE One

\* the candidate at position i has a frequency in type_frequencies
HasFrequency(a, i) ==
    a.type_frequencies # <<>> /\ a.candidates[i].structure_type \in DOMAIN a.type_frequencies

\* the frequency of the structure type of the candidate at position i
Frequency(a, i) == a.type_frequencies[a.candidates[i].structure_type]

\* the diversity bonus computed for every candidate is 1 minus the frequency of
\* its structure type, clamped to [0,1], when that type has a frequency, and
\* 1.0 when no frequencies are supplied or the type has none
DiversityFromFrequency ==
    \A k \in 1..Len(sel_ret.scored) :
        LET i == sel_ret.scored[k].pos
        IN sel_ret.scored[k].diversity_bonus =
              IF HasFrequency(sel_args, i)
              THEN Clamp(One - Frequency(sel_args, i))
              ELSE One

\* the scored candidates that have the confidence and the novelty bonus of the
\* returned one, and a frequency, as the returned one has
Rivals ==
    LET r == sel_ret.result[1]
    IN {k \in 1..Len(sel_ret.scored) :
           /\ HasFrequency(sel_args, r.pos)
           /\ HasFrequency(sel_args, sel_ret.scored[k].pos)
           /\ sel_args.candidates[sel_ret.scored[k].pos].confidence = r.candidate.confidence
           /\ sel_ret.scored[k].novelty_bonus = r.novelty_bonus}

C30_WaitLocalToLimiter ==
    \A s \in Sessions :
        (loop.fetch[s].stage \in {"sent", "done"} /\ loop.fetch[s].allowed)
           => /\ loop.fetch[s].started_at = loop.fetch[s].ready_at
              /\ loop.fetch[s].waited = 0

\* C31 as stated: once current_state is SESSION_END no call of transition,
\* recover_from_checkpoint, can_transition or get_latest_checkpoint makes it
\* different from SESSION_END again
C31_SessionEndAbsorbing ==
    [][\A m \in Machines :
          current_state[m] = "session_end" => current_state'[m] = "session_end"]_vars

\* C31 amended: SESSION_END is absorbing under transition, can_transition and
\* get_latest_checkpoint; the only call after which a machine that was in
\* SESSION_END is in another state is a recover_from_checkpoint on that machine,
\* which puts it in the state of the checkpoint it was given.
C31_SessionEndLeftOnlyByRecover ==
    [][\A m \in Machines :
          current_state[m] = "session_end"
          => /\ (ret'.m = m /\ ret'.op \in {"transition", "can_transition",
                                           "get_latest_checkpoint"})
                   => current_state'[m] = "session_end"
             /\ current_state'[m] # "session_end"
                   => /\ ret'.op = "recover_from_checkpoint" /\ ret'.m = m
                      /\ current_state'[m] = ret'.cp[1].state]_vars

\* C31 witness: machine 2 ended its session and was then restored from machine 1's
\* FORAGING checkpoint, which took it out of SESSION_END
C31_Witness ==
    /\ LogStates(checkpoints[2]) = <<"session_end", "foraging">>
    /\ nTransitions[2] = 1 /\ nRecovers[2] = 1
    /\ ret.op = "recover_from_checkpoint" /\ ret.m = 2
    /\ current_state[2] = "foraging"

\* the states a machine on which recover_from_checkpoint was never called has been
\* in, in order: IDLE, then the state each successful transition led to
Path(m) == <<"idle">> \o LogStates(checkpoints[m])

\* the place of the most recent IDLE before place j of a path that starts in IDLE
LastIdleBefore(path, j) == Max({k \in 1..(j - 1) : path[k] = "idle"})

\* the six stages of a pipeline pass that come before STORING
StagesBeforeStoring == SubSeq(HappyStates, 2, 7)

\* C32: in a run of successful transitions without recover_from_checkpoint, every
\* entry into STORING is preceded, since the most recent visit of IDLE, by
\* FORAGING, PREPROCESSING, IDENTIFYING, SELECTING, ASSEMBLING and VALIDATING, each
\* visited exactly once and in that order.
C32_StoringAfterFullPass ==
    \A j \in 2..Len(Path(1)) :
        Path(1)[j] = "storing"
        => SubSeq(Path(1), LastIdleBefore(Path(1), j) + 1, j - 1) = StagesBeforeStoring

\* C32 witness: the machine entered STORING a second time, on its second pass, the
\* first pass having been stored
C32_Witness ==
    /\ current_state[1] = "storing"
    /\ Len(checkpoints[1]) = 15
    /\ checkpoints[1][7].state = "storing"
    /\ checkpoints[1][8].state = "idle"
    /\ ret.op = "transition" /\ ret.event = "review"

\* the states in which a run of the machine starts over or ends
RestStates == {"idle", "session_end"}

\* C33: in a run of successful transitions the machine cannot cycle without passing
\* through IDLE: among any 9 consecutive successful transitions at least one enters
\* IDLE or SESSION_END.
C33_NineTransitionsReachRest ==
    \A i \in 1..(Len(checkpoints[1]) - 8) :
        \E k \in i..(i + 8) : checkpoints[1][k].state \in RestStates

\* C33 witness: eight consecutive transitions through the seven pipeline states and
\* into ERROR_RECOVERY, none of them entering IDLE or SESSION_END, and the ninth
\* entering IDLE
C33_Witness ==
    /\ Len(checkpoints[1]) = 11
    /\ \A k \in 3..10 : checkpoints[1][k].state \notin RestStates
    /\ checkpoints[1][10].state = "error_recovery"
    /\ checkpoints[1][11].state = "idle"
    /\ ret.op = "transition" /\ ret.event = "recovered"

\* C34: in a run of successful transitions SESSION_END is entered only from IDLE by
\* end_session or from ERROR_RECOVERY by fatal, and ERROR_RECOVERY is entered only
\* by the event error from one of the seven pipeline states FORAGING to STORING;
\* the events error, recovered and fatal are illegal in IDLE.
C34_SessionEndsFromIdleOrRecovery ==
    [][/\ (ret'.op = "transition" /\ ret'.m = 1 /\ ret'.raised = "")
             => /\ current_state'[1] = "session_end"
                   => \/ current_state[1] = "idle" /\ ret'.event = "end_session"
                      \/ current_state[1] = "error_recovery" /\ ret'.event = "fatal"
                /\ current_state'[1] = "error_recovery"
                   => /\ ret'.event = "error"
                      /\ current_state[1] \in PipelineStates
       /\ (ret'.op = "transition" /\ ret'.m = 1 /\ current_state[1] = "idle"
           /\ ret'.event \in {"error", "recovered", "fatal"})
             => /\ ret'.raised = "InvalidTransitionError"
                /\ current_state'[1] = "idle"
                /\ ~can_transition(1, ret'.event)]_vars

\* C34 witness: an error in FORAGING led to ERROR_RECOVERY and from there back to
\* IDLE, where the event fatal was then rejected
C34_Witness ==
    /\ LogStates(checkpoints[1]) = <<"foraging", "error_recovery", "idle">>
    /\ current_state[1] = "idle"
    /\ ret.op = "transition" /\ ret.event = "fatal"
    /\ ret.raised = "InvalidTransitionError"

\* the states one successful transition leads to from state s
Successors(s) == {TRANSITIONS[s][e] : e \in Row(s)}

\* the states reached from the states S by at most n successful transitions
RECURSIVE ReachWithin(_, _)
ReachWithin(S, n) ==
    IF n = 0 THEN S
    ELSE ReachWithin(S \cup UNION {Successors(t) : t \in S}, n - 1)

\* the states reachable from state s by successful transitions
ReachableFrom(s) == ReachWithin({s}, Cardinality(AgentState))

\* C35: every one of the 10 states is reachable from IDLE by successful
\* transitions, every state other than SESSION_END has at least one legal event,
\* and from every state other than SESSION_END both IDLE and SESSION_END can still
\* be reached; SESSION_END is the only state in which the machine is stuck.
C35_OnlySessionEndStuck ==
    /\ Cardinality(AgentState) = 10
    /\ ReachableFrom("idle") = AgentState
    /\ \A s \in AgentState \ {"session_end"} :
          /\ Row(s) # {}
          /\ {"idle", "session_end"} \subseteq ReachableFrom(s)
    /\ ReachableFrom("session_end") = {"session_end"}
    /\ {"idle", "session_end"} \subseteq ReachableFrom(current_state[1])
          <=> current_state[1] # "session_end"
    /\ (\E e \in EventInputs : can_transition(1, e)) <=> current_state[1] # "session_end"

\* C35 witness: one run of successful transitions took the machine from IDLE
\* through every one of the 10 states and ended in SESSION_END, where it is stuck
C35_Witness ==
    /\ {Path(1)[j] : j \in 1..Len(Path(1))} = AgentState
    /\ current_state[1] = "session_end"
    /\ \A e \in EventInputs : ~can_transition(1, e)

\* every checkpoint of the log carries the session id
AllCarry(log, sid) == \A i \in 1..Len(log) : log[i].session_id = sid

\* C36 as stated: after any sequence of transition and recover_from_checkpoint
\* calls every checkpoint in a machine's log carries the machine's current
\* session_id; transition never changes session_id
C36_EveryCheckpointCarriesSessionId ==
    [][\A m \in Machines :
          /\ AllCarry(checkpoints'[m], session_id'[m])
          /\ (ret'.op = "transition" /\ ret'.m = m)
                => session_id'[m] = session_id[m]]_vars

\* C36 amended: transition never changes session_id and the checkpoint it appends
\* carries it; recover_from_checkpoint sets session_id to that of the checkpoint it
\* appends; so the latest checkpoint always carries the current session_id. Every
\* checkpoint of the log carries it as long as no recover_from_checkpoint with a
\* checkpoint of another session_id was called on a machine whose log was not
\* empty: the entries logged before such a call keep the earlier session_id.
C36_LatestCheckpointCarriesSessionId ==
    [][\A m \in Machines :
          LET log == checkpoints'[m]
          IN /\ (ret'.op = "transition" /\ ret'.m = m)
                   => session_id'[m] = session_id[m]
             /\ log # <<>> => log[Len(log)].session_id = session_id'[m]
             /\ (ret'.op = "recover_from_checkpoint" /\ ret'.m = m)
                   => session_id'[m] = ret'.cp[1].session_id
             /\ (AllCarry(checkpoints[m], session_id[m])
                 /\ ~AllCarry(log, session_id'[m]))
                   => /\ ret'.op = "recover_from_checkpoint" /\ ret'.m = m
                      /\ checkpoints[m] # <<>>
                      /\ ret'.cp[1].session_id # session_id[m]
             /\ nRecovers'[m] = 0 => AllCarry(log, session_id'[m])]_vars

\* C36 witness: machine 2 made a transition under its own session_id and was then
\* restored from a checkpoint of machine 1: its first entry keeps the earlier id,
\* its latest entry carries the current one
C36_Witness ==
    /\ ret.op = "recover_from_checkpoint" /\ ret.m = 2
    /\ Len(checkpoints[2]) = 2
    /\ session_id[2] = "u1"
    /\ checkpoints[2][1].session_id = "u2"
    /\ checkpoints[2][2].session_id = "u1"

\* C37: tier changes have hysteresis: each record call changes current_tier by at
\* most 1, record_success never lowers it and record_failure never raises it, and
\* every promotion (demotion) ends a run of at least successes_to_promote
\* consecutive record_success calls (failures_to_demote consecutive record_failure
\* calls) with no call of the other kind and no earlier tier change among them.
C37_TierChangesEndAStreak ==
    [][/\ run'.kind = "success"
             => /\ current_tier' \in {current_tier, current_tier + 1}
                /\ current_tier' = current_tier + 1
                      => /\ run'.calls >= config.successes_to_promote
                         /\ run'.start_tier = current_tier
       /\ run'.kind = "failure"
             => /\ current_tier' \in {current_tier, current_tier - 1}
                /\ current_tier' = current_tier - 1
                      => /\ run'.calls >= config.failures_to_demote
                         /\ run'.start_tier = current_tier]_vars

\* C37 witness: with a threshold of 2, the second of two consecutive successes
\* made at tier 2 promoted the forager to tier 3
C37_Witness ==
    /\ config.successes_to_promote = 2 /\ config.failures_to_demote = 2
    /\ run.kind = "success" /\ run.calls = 2 /\ run.broke = 0
    /\ run.start_tier = 2
    /\ current_tier = 3
    /\ consecutive_successes = 0

\* C38: after any sequence of record_success and record_failure calls with
\* thresholds of at least 1, consecutive_successes is below successes_to_promote
\* unless current_tier equals the highest configured tier (the max_tier of
\* record_success), and consecutive_failures is below failures_to_demote unless
\* current_tier is 1.
C38_StreaksBelowThresholdInside ==
    /\ config.successes_to_promote >= 1 /\ config.failures_to_demote >= 1
    /\ current_tier # max_tier => consecutive_successes < config.successes_to_promote
    /\ current_tier # 1 => consecutive_failures < config.failures_to_demote

\* C38 witness: at tier 1 of a forager with higher tiers, a failure streak that
\* has grown past the demotion threshold
C38_Witness ==
    /\ max_tier = 3
    /\ current_tier = 1
    /\ run.kind = "failure" /\ run.calls = 4
    /\ config.failures_to_demote = 2
    /\ consecutive_failures = 4
    /\ consecutive_successes = 0

\* C39: forage changes none of the forager's control state: current_tier,
\* consecutive_successes and consecutive_failures are the same after a forage call
\* as before it, whether it returns a result, returns absence, or the source raised.
\* Both steps of a call, up to its await and from the await to its return, leave
\* them as they are.
C39_ForageKeepsControlState ==
    [][(fret' # fret \/ run' = run)
          => /\ fret'.op = "forage"
             /\ fret'.tier = (IF fret.awaiting THEN fret.tier ELSE current_tier)
             /\ fret.awaiting => ~fret'.awaiting
             /\ current_tier' = current_tier
             /\ consecutive_successes' = consecutive_successes
             /\ consecutive_failures' = consecutive_failures
             /\ sources' = sources /\ config' = config]_vars

\* C39 witness: a forage call made at tier 2 has returned absence after its source
\* raised, on a forager that is at tier 2 with a failure streak of 1
C39_Witness ==
    /\ fret.op = "forage" /\ fret.tier = 2 /\ ~fret.awaiting
    /\ fret.outcome = "Exception" /\ fret.raised = "" /\ fret.result = <<>>
    /\ fret.source_name # ""
    /\ current_tier = 2
    /\ run.kind = "failure" /\ run.calls = 1 /\ run.start_tier = 2
    /\ consecutive_failures = 1
    /\ consecutive_successes = 0

\* C40: if at least one tier has a non-empty source list, a forager whose caller
\* keeps foraging, calls record_success only after a forage that returned a result
\* and record_failure only after a forage that returned absence, reaches a source:
\* some forage call invokes one, also when the only configured sources are in a
\* tier above 1. (The tier rises only by record_success, which this caller makes
\* only once a source has answered, so a source is reached by some sequence of
\* calls exactly if every caller that keeps foraging reaches one.)
C40_ConfiguredSourceReached ==
    (\E t \in DOMAIN sources : sources[t] # <<>>)
        => <>(fret.op = "forage" /\ fret.source_name # "")

(***************************************************************************)
(* The parts a specification does not drive stay as constructed.           *)
(***************************************************************************)
IdleRecover == stage = "original" /\ m1_ret = Ret("init", 0, "")

IdleForager == InitForager(<<>>, [successes_to_promote |-> 1, failures_to_demote |-> 1])

IdleCallers == th = [t \in Callers |-> IdleCaller]

IdleForage == fret = NoForage

IdleRoute == failure = NoFailure /\ routed = NoRouted

IdleSelect ==
    /\ sel_args = SelectArgs(<<>>, <<>>, <<>>, <<>>, SelectionConfig(4, 4, 0))
    /\ sel_ret = NoSelected

IdleLimiter == now = 0 /\ limiter = RateLimiter(60) /\ wret = NoWait

IdleForagerCallers == fth = NoForagerCalls

IdleLoop == loop = EventLoop([s \in Sessions |-> 60])

IdleRest ==
    /\ IdleForage /\ IdleRoute /\ IdleSelect /\ IdleLimiter
    /\ IdleForagerCallers /\ IdleLoop

(***************************************************************************)
(* Spec: two machines, every public operation of the state machine; calls  *)
(* of transition pass no payload (SpecRecover passes the payloads).        *)
(***************************************************************************)
Init == InitSM /\ IdleRecover /\ IdleForager /\ IdleCallers /\ IdleRest

TransitionStep ==
    \E m \in Machines, event \in EventInputs :
        /\ can_transition(m, event) => Len(checkpoints[1]) + Len(checkpoints[2]) < MaxLog
        /\ transition(m, event, "None")
        /\ UNCHANGED <<recVars, fVars, cVars, xVars>>

RecoverStep ==
    \E m \in Machines, checkpoint \in HeldCheckpoints :
        /\ Len(checkpoints[1]) + Len(checkpoints[2]) < MaxLog
        /\ recover_from_checkpoint(m, checkpoint)
        /\ UNCHANGED <<recVars, fVars, cVars, xVars>>

CanTransitionStep ==
    \E m \in Machines, event \in EventInputs :
        CanTransitionCall(m, event) /\ UNCHANGED <<recVars, fVars, cVars, xVars>>

GetLatestStep ==
    \E m \in Machines : GetLatestCall(m) /\ UNCHANGED <<recVars, fVars, cVars, xVars>>

Next ==
    \/ TransitionStep
    \/ RecoverStep
    \/ CanTransitionStep
    \/ GetLatestStep

Spec == Init /\ [][Next]_vars

(***************************************************************************)
(* SpecRun: one fresh machine driven by transition calls only.             *)
(***************************************************************************)
RunStep ==
    \E event \in EventInputs :
        /\ can_transition(1, event) => Len(checkpoints[1]) < MaxRun
        /\ transition(1, event, "None")
        /\ UNCHANGED <<recVars, fVars, cVars, xVars>>

SpecRun == Init /\ [][RunStep]_vars

(***************************************************************************)
(* SpecProbe: one fresh machine driven by transition calls, with           *)
(* can_transition called in between.                                       *)
(***************************************************************************)
ProbeStep ==
    \E event \in EventInputs :
        CanTransitionCall(1, event) /\ UNCHANGED <<recVars, fVars, cVars, xVars>>

NextProbe ==
    \/ RunStep
    \/ ProbeStep

SpecProbe == Init /\ [][NextProbe]_vars

(***************************************************************************)
(* SpecRecover: machine 1 runs, machine 2 is created after a crash and     *)
(* recovers from machine 1's latest checkpoint; from then on every event   *)
(* is applied to machine 1 and then to machine 2.                          *)
(***************************************************************************)
OriginalStep ==
    \E event \in EventInputs, data \in Payloads :
        /\ stage = "original"
        /\ can_transition(1, event) => Len(checkpoints[1]) < MaxOriginal
        /\ transition(1, event, data)
        /\ UNCHANGED <<recVars, fVars, cVars, xVars>>

CrashRecoverStep ==
    /\ stage = "original"
    /\ get_latest_checkpoint(1) # <<>>
    /\ recover_from_checkpoint(2, get_latest_checkpoint(1)[1])
    /\ stage' = "replay"
    /\ UNCHANGED <<m1_ret, fVars, cVars, xVars>>

ReplayFirstStep ==
    \E event \in EventInputs :
        /\ stage = "replay"
        /\ ret.m = 2
        /\ can_transition(1, event) => Len(checkpoints[2]) < 1 + MaxReplay
        /\ transition(1, event, "None")
        /\ m1_ret' = ret'
        /\ UNCHANGED <<stage, fVars, cVars, xVars>>

ReplaySecondStep ==
    /\ stage = "replay"
    /\ ret.m = 1
    /\ transition(2, m1_ret.event, "None")
    /\ UNCHANGED <<recVars, fVars, cVars, xVars>>

NextRecover ==
    \/ OriginalStep
    \/ CrashRecoverStep
    \/ ReplayFirstStep
    \/ ReplaySecondStep

SpecRecover == Init /\ [][NextRecover]_vars

(***************************************************************************)
(* SpecForager: a forager of any configuration, driven by the two record   *)
(* calls.                                                                  *)
(***************************************************************************)
InitF ==
    /\ InitSM
    /\ IdleRecover
    /\ IdleCallers
    /\ IdleRest
    /\ \E srcs \in SourceConfigs, cfg \in ForagerConfig : InitForager(srcs, cfg)

RecordSuccessStep ==
    /\ consecutive_successes < MaxStreak
    /\ record_success
    /\ UNCHANGED <<smVars, recVars, cVars, xVars>>

RecordFailureStep ==
    /\ consecutive_failures < MaxStreak
    /\ record_failure
    /\ UNCHANGED <<smVars, recVars, cVars, xVars>>

NextForager ==
    \/ RecordSuccessStep
    \/ RecordFailureStep

SpecForager == InitF /\ [][NextForager]_vars

(***************************************************************************)
(* SpecForage: a forager of any configuration, driven by forage and the    *)
(* two record calls; a record call may be made, by another task of the     *)
(* event loop, while a forage call awaits its source.                      *)
(***************************************************************************)
InitForage ==
    /\ InitSM
    /\ IdleRecover
    /\ IdleCallers
    /\ IdleRest
    /\ \E srcs \in SourceConfigs, threshold \in 1..MaxThreshold :
          InitForager(srcs, [successes_to_promote |-> threshold,
                             failures_to_demote |-> threshold])

ForageStep ==
    \E curiosity \in Curiosities :
        /\ forage(curiosity)
        /\ UNCHANGED <<smVars, recVars, cVars, routeVars, selVars, rlVars, fcVars>>

ForageResumesStep ==
    \E outcome \in FetchOutcomes :
        /\ forage_resumes(outcome)
        /\ UNCHANGED <<smVars, recVars, cVars, routeVars, selVars, rlVars, fcVars>>

NextForage ==
    \/ ForageStep
    \/ ForageResumesStep
    \/ RecordSuccessStep
    \/ RecordFailureStep

SpecForage == InitForage /\ [][NextForage]_vars

(***************************************************************************)
(* SpecRoute: one machine runs the pipeline; a step of the pipeline may    *)
(* fail with any error, and the failure is handled as the tests do:        *)
(* transition("error"), determine_recovery_event(error), transition(event).*)
(***************************************************************************)
PipelineStep ==
    \E event \in EventInputs \ {"error", "recovered", "fatal"} :
        /\ failure.stage \in {"none", "handled"}
        /\ can_transition(1, event) => Len(checkpoints[1]) < MaxRun
        /\ transition(1, event, "None")
        /\ failure' = NoFailure
        /\ UNCHANGED <<routed, recVars, fVars, cVars, forageVars, selVars, rlVars, fcVars>>

FailStep ==
    \E error \in Errors :
        /\ failure.stage \in {"none", "handled"}
        /\ current_state[1] \in PipelineStates
        /\ Len(checkpoints[1]) < MaxRun
        /\ transition(1, "error", "None")
        /\ failure' = Failure("raised", error, current_state[1])
        /\ UNCHANGED <<routed, recVars, fVars, cVars, forageVars, selVars, rlVars, fcVars>>

ClassifyStep ==
    /\ failure.stage = "raised"
    /\ routed' = determine_recovery_event(failure.error)
    /\ failure' = [failure EXCEPT !.stage = "classified"]
    /\ UNCHANGED <<smVars, recVars, fVars, cVars, forageVars, selVars, rlVars, fcVars>>

HandleStep ==
    /\ failure.stage = "classified"
    /\ transition(1, routed.event, "None")
    /\ failure' = [failure EXCEPT !.stage = "handled"]
    /\ UNCHANGED <<routed, recVars, fVars, cVars, forageVars, selVars, rlVars, fcVars>>

NextRoute ==
    \/ PipelineStep
    \/ FailStep
    \/ ClassifyStep
    \/ HandleStep

SpecRoute == Init /\ [][NextRoute]_vars

(***************************************************************************)
(* SpecSelect: select_candidate applied to every list of up to             *)
(* MaxCandidates candidates, under every context drawn at the start.       *)
(***************************************************************************)
InitSelect ==
    /\ InitSM
    /\ IdleRecover
    /\ IdleForager
    /\ IdleCallers
    /\ IdleForage
    /\ IdleRoute
    /\ IdleLimiter
    /\ IdleForagerCallers
    /\ IdleLoop
    /\ \E corpus_embeddings \in CorpusEmbeddings,
          candidate_embeddings \in CandidateEmbeddings,
          type_frequencies \in TypeFrequencies, cfg \in SelectionConfigs :
            sel_args = SelectArgs(<<>>, corpus_embeddings, candidate_embeddings,
                                  type_frequencies, cfg)
    /\ sel_ret = NoSelected

AddCandidate ==
    \E structure_type \in StructureTypes, confidence \in Confidences :
        /\ sel_ret.op = "init"
        /\ Len(sel_args.candidates) < MaxCandidates
        /\ sel_args' = [sel_args EXCEPT !.candidates =
                            Append(@, CandidateStructure(Filling(Len(@) + 1),
                                                         structure_type, confidence))]
        /\ UNCHANGED <<sel_ret, smVars, recVars, fVars, cVars, forageVars, routeVars, rlVars, fcVars>>

RepeatCandidate ==
    \E j \in 1..Len(sel_args.candidates) :
        /\ sel_ret.op = "init"
        /\ Len(sel_args.candidates) < MaxCandidates
        /\ sel_args' = [sel_args EXCEPT !.candidates = Append(@, @[j])]
        /\ UNCHANGED <<sel_ret, smVars, recVars, fVars, cVars, forageVars, routeVars, rlVars, fcVars>>

SelectStep ==
    /\ sel_ret.op = "init"
    /\ sel_ret' = SelectRet(sel_args)
    /\ UNCHANGED <<sel_args, smVars, recVars, fVars, cVars, forageVars, routeVars, rlVars, fcVars>>

NextSelect ==
    \/ AddCandidate
    \/ RepeatCandidate
    \/ SelectStep

SpecSelect == InitSelect /\ [][NextSelect]_vars

(***************************************************************************)
(* SpecLimiter: one RateLimiter, created when the monotonic clock shows    *)
(* any time, and called at any later times by two threads.                 *)
(***************************************************************************)
InitLimiter ==
    /\ InitSM
    /\ IdleRecover
    /\ IdleForager
    /\ IdleCallers
    /\ IdleForage
    /\ IdleRoute
    /\ IdleSelect
    /\ IdleForagerCallers
    /\ IdleLoop
    /\ \E start \in 0..MaxClock, max_per_minute \in MaxPerMinutes :
          /\ now = start
          /\ limiter = RateLimiter(max_per_minute)
    /\ wret = NoWait

\* the clock goes on by a second: not while a caller is between two statements,
\* nor beyond the longest time a caller's time.sleep takes
TickStep ==
    /\ now < MaxClock
    /\ \A t \in Waiters :
          LET c == wret.caller[t]
          IN /\ c.pc # "48"
             /\ c.pc = "45"
                   => \E oversleep \in Oversleeps : now < c.at + c.wait_time + oversleep
    /\ now' = now + 1
    /\ UNCHANGED <<limiter, wret, smVars, recVars, fVars, cVars, forageVars, routeVars, selVars, fcVars>>

WaitStep ==
    \E t \in Waiters :
        /\ wait_if_needed(t)
        /\ now + wret'.caller[t].wait_time <= MaxClock
        /\ UNCHANGED <<smVars, recVars, fVars, cVars, forageVars, routeVars, selVars, fcVars>>

WaitWakesStep ==
    \E t \in Waiters, oversleep \in Oversleeps :
        /\ wait_if_needed_wakes(t, oversleep)
        /\ UNCHANGED <<smVars, recVars, fVars, cVars, forageVars, routeVars, selVars, fcVars>>

WaitReturnsStep ==
    \E t \in Waiters :
        /\ wait_if_needed_returns(t)
        /\ UNCHANGED <<smVars, recVars, fVars, cVars, forageVars, routeVars, selVars, fcVars>>

NextLimiter ==
    \/ TickStep
    \/ WaitStep
    \/ WaitWakesStep
    \/ WaitReturnsStep

SpecLimiter == InitLimiter /\ [][NextLimiter]_vars

(***************************************************************************)
(* SpecConc: two callers of transition() on machine 1, interleaved         *)
(* statement by statement.                                                 *)
(***************************************************************************)
NextConc ==
    \/ \E t \in Callers, event \in EventInputs :
            CallTransition(t, event) /\ UNCHANGED <<recVars, fVars, xVars>>
    \/ \E t \in Callers : CheckEvent(t) /\ UNCHANGED <<recVars, fVars, xVars>>
    \/ \E t \in Callers : LookupNewState(t) /\ UNCHANGED <<recVars, fVars, xVars>>
    \/ \E t \in Callers : ReadOldState(t) /\ UNCHANGED <<recVars, fVars, xVars>>
    \/ \E t \in Callers : MakeCheckpoint(t) /\ UNCHANGED <<recVars, fVars, xVars>>
    \/ \E t \in Callers : AppendCheckpoint(t) /\ UNCHANGED <<recVars, fVars, xVars>>
    \/ \E t \in Callers : SetCurrentState(t) /\ UNCHANGED <<recVars, fVars, xVars>>

SpecConc == Init /\ [][NextConc]_vars

(***************************************************************************)
(* SpecForagerConc: a forager brought to any state by record calls made    *)
(* one after the other, then two callers of its methods interleaved        *)
(* statement by statement.                                                 *)
(***************************************************************************)
InitForagerConc ==
    /\ InitSM
    /\ IdleRecover
    /\ IdleCallers
    /\ IdleRest
    /\ \E srcs \in SourceConfigs, threshold \in 1..MaxThreshold :
          /\ \A k \in DOMAIN srcs : srcs[k] # <<>>
          /\ InitForager(srcs, [successes_to_promote |-> threshold,
                                failures_to_demote |-> threshold])

NextForagerConc ==
    \/ fth.start = <<>> /\ RecordSuccessStep
    \/ fth.start = <<>> /\ RecordFailureStep
    \/ \E ops \in [Callers -> ForagerOps] :
            BeginCalls(ops) /\ UNCHANGED <<smVars, recVars, cVars, forageVars,
                                           routeVars, selVars, rlVars, loop>>
    \/ \E t \in Callers :
            record_success_line(t) /\ UNCHANGED <<smVars, recVars, cVars, forageVars,
                                                  routeVars, selVars, rlVars, loop>>
    \/ \E t \in Callers :
            record_failure_line(t) /\ UNCHANGED <<smVars, recVars, cVars, forageVars,
                                                  routeVars, selVars, rlVars, loop>>
    \/ \E t \in Callers :
            forage_line(t) /\ UNCHANGED <<smVars, recVars, cVars, forageVars,
                                          routeVars, selVars, rlVars, loop>>

SpecForagerConc == InitForagerConc /\ [][NextForagerConc]_vars

(***************************************************************************)
(* SpecLatest: machine 1 makes transitions with payloads (rejected ones    *)
(* only while it has made no transition yet), machine 2 is restored from   *)
(* any checkpoint written so far, and get_latest_checkpoint is called on   *)
(* either machine.                                                         *)
(***************************************************************************)
PayloadStep ==
    \E event \in EventInputs, data \in Payloads :
        /\ can_transition(1, event) \/ nTransitions[1] = 0
        /\ can_transition(1, event) => Len(checkpoints[1]) < MaxOriginal
        /\ transition(1, event, data)
        /\ UNCHANGED <<recVars, fVars, cVars, xVars>>

RestoreStep ==
    \E checkpoint \in HeldCheckpoints :
        /\ Len(checkpoints[2]) < MaxReplay
        /\ recover_from_checkpoint(2, checkpoint)
        /\ UNCHANGED <<recVars, fVars, cVars, xVars>>

NextLatest ==
    \/ PayloadStep
    \/ RestoreStep
    \/ GetLatestStep

SpecLatest == Init /\ [][NextLatest]_vars

(***************************************************************************)
(* SpecChoose: a forager whose tiers hold up to two sources, with both     *)
(* thresholds 1 so that every record call moves the tier, driven by forage *)
(* and the two record calls.                                               *)
(***************************************************************************)
InitChoose ==
    /\ InitSM
    /\ IdleRecover
    /\ IdleCallers
    /\ IdleRest
    /\ \E srcs \in ChoiceConfigs :
          InitForager(srcs, [successes_to_promote |-> 1, failures_to_demote |-> 1])

SpecChoose == InitChoose /\ [][NextForage]_vars

(***************************************************************************)
(* SpecLoop: two sessions on one event loop, each with a source and a      *)
(* limiter of its own, making fetches at any time.                         *)
(***************************************************************************)
InitLoop ==
    /\ InitSM
    /\ IdleRecover
    /\ IdleForager
    /\ IdleCallers
    /\ IdleForage
    /\ IdleRoute
    /\ IdleSelect
    /\ IdleForagerCallers
    /\ wret = NoWait
    /\ limiter = RateLimiter(60)
    /\ \E start \in 0..MaxClock, rates \in [Sessions -> MaxPerMinutes] :
          /\ now = start
          /\ loop = EventLoop(rates)

CreateStep ==
    \E s \in Sessions :
        /\ CreateTask(s)
        /\ UNCHANGED <<limiter, wret, fth, smVars, recVars, fVars, cVars, forageVars,
                       routeVars, selVars>>

RunTaskStep ==
    \E s \in Sessions, oversleep \in Oversleeps :
        /\ RunTask(s, oversleep)
        /\ now' <= MaxClock
        /\ UNCHANGED <<limiter, wret, fth, smVars, recVars, fVars, cVars, forageVars,
                       routeVars, selVars>>

CompleteStep ==
    \E s \in Sessions, response \in SearchResponses, oversleep \in Oversleeps :
        /\ CompleteTask(s, response, oversleep)
        /\ now' <= MaxClock
        /\ UNCHANGED <<limiter, wret, fth, smVars, recVars, fVars, cVars, forageVars,
                       routeVars, selVars>>

PageStep ==
    \E s \in Sessions :
        /\ CompletePage(s)
        /\ UNCHANGED <<limiter, wret, fth, smVars, recVars, fVars, cVars, forageVars,
                       routeVars, selVars>>

IdleStep ==
    /\ now < MaxClock
    /\ LoopIdles
    /\ UNCHANGED <<limiter, wret, fth, smVars, recVars, fVars, cVars, forageVars,
                   routeVars, selVars>>

NextLoop ==
    \/ CreateStep
    \/ RunTaskStep
    \/ CompleteStep
    \/ PageStep
    \/ IdleStep

SpecLoop == InitLoop /\ [][NextLoop]_vars

(***************************************************************************)
(* SpecPass: one fresh machine driven through long runs of successful      *)
(* transition calls, long enough for two passes of the pipeline.           *)
(***************************************************************************)
PassStep ==
    \E event \in EventInputs :
        /\ can_transition(1, event)
        /\ Len(checkpoints[1]) < MaxPass
        /\ transition(1, event, "None")
        /\ UNCHANGED <<recVars, fVars, cVars, xVars>>

SpecPass == Init /\ [][PassStep]_vars

(***************************************************************************)
(* SpecDriven: a forager of any configuration and the caller of its three  *)
(* methods: the caller keeps calling forage, calls record_success only     *)
(* when the latest forage returned a result and record_failure only when   *)
(* it returned None; an awaited source answers in the end.                 *)
(***************************************************************************)
SuccessAfterResultStep ==
    /\ fret.op = "forage" /\ ~fret.awaiting /\ fret.result # <<>>
    /\ RecordSuccessStep

FailureAfterAbsenceStep ==
    /\ fret.op = "forage" /\ ~fret.awaiting /\ fret.raised = "" /\ fret.result = <<>>
    /\ RecordFailureStep

NextDriven ==
    \/ ForageStep
    \/ ForageResumesStep
    \/ SuccessAfterResultStep
    \/ FailureAfterAbsenceStep

SpecDriven == InitForage /\ [][NextDriven]_vars /\ WF_vars(ForageStep)
                 /\ WF_vars(ForageResumesStep)

====
